---- MODULE Spec2Model ----
(***************************************************************************)
(* Medical Reading Query & Aggregation Engine of HealthBotV2.              *)
(*                                                                         *)
(* The store (users and reading tables) is a read-only snapshot; every     *)
(* operation of MedicalReadingsService and of the tools that call it is    *)
(* one action that reads the snapshot and leaves a result.                 *)
(*   store   the snapshot                                                  *)
(*   call    the last operation invoked, with its arguments                *)
(*   engine  the engine call that operation made (None: it made none)      *)
(*   result  what the operation returned                                   *)
(* The objects that outlive a call are modelled in specifications of their *)
(* own and are absent (None, empty) in the others:                         *)
(*   service         a MedicalReadingsService instance kept between calls  *)
(*   manager         a DatabaseManager: its session and its cached services*)
(*   device_service  the DeviceService kept by get_device_service          *)
(*   session_agents  the agents of api/chat_routes.py, by session id       *)
(*   requests        the /query requests whose agent call has not returned *)
(*                                                                         *)
(* Conventions                                                             *)
(*   - a Python str that the code parses or matches is a sequence of       *)
(*     one-character strings; a str that is only passed around is a string *)
(*   - Optional[x] / a nullable column is <<>> (None / NULL) or <<x>>      *)
(*   - a datetime is a record [year, month, day, hour, minute, second]     *)
(*   - numeric column values are fixed-point in tenths (180 is 1800)       *)
(***************************************************************************)
EXTENDS Integers, Sequences, FiniteSets, TLC

VARIABLES store, call, engine, result, manager, device_service, session_agents, service,
          requests

vars == <<store, call, engine, result, manager, device_service, session_agents, service,
          requests>>

None == <<>>

Some(x) == <<x>>

IsNone(o) == o = <<>>

Get(o) == o[1]

(***************************************************************************)
(* datetime / timedelta / calendar.monthrange                              *)
(***************************************************************************)
DateTime(y, mo, d, h, mi, s) ==
  [year |-> y, month |-> mo, day |-> d, hour |-> h, minute |-> mi, second |-> s]

isleap(y) == y % 4 = 0 /\ (y % 100 # 0 \/ y % 400 = 0)

\* calendar.monthrange(year, month)[1]
monthrange(y, mo) ==
  IF mo = 2 THEN (IF isleap(y) THEN 29 ELSE 28)
  ELSE IF mo \in {4, 6, 9, 11} THEN 30 ELSE 31

RECURSIVE DaysBeforeMonth(_, _)
DaysBeforeMonth(y, mo) ==
  IF mo <= 1 THEN 0 ELSE DaysBeforeMonth(y, mo - 1) + monthrange(y, mo - 1)

RECURSIVE DaysBeforeYear(_)
DaysBeforeYear(y) ==
  IF y <= 2024 THEN 0
  ELSE DaysBeforeYear(y - 1) + (IF isleap(y - 1) THEN 366 ELSE 365)

\* position of a datetime on the time line, in seconds since 2024-01-01
Secs(dt) ==
  (DaysBeforeYear(dt.year) + DaysBeforeMonth(dt.year, dt.month) + (dt.day - 1)) * 86400
    + dt.hour * 3600 + dt.minute * 60 + dt.second

\* the value of a DATETIME column cast to TIME, and datetime.time(), in seconds of the day
TimeOfDay(dt) == dt.hour * 3600 + dt.minute * 60 + dt.second

Hours(n) == n * 3600

Days(n) == n * 86400

\* datetime(year, month, day, ...) raises ValueError outside these ranges
ValidDateTime(y, mo, d, h, mi, s) ==
  /\ y >= 1 /\ y <= 9999
  /\ mo >= 1 /\ mo <= 12
  /\ d >= 1 /\ d <= monthrange(y, mo)
  /\ h >= 0 /\ h <= 23 /\ mi >= 0 /\ mi <= 59 /\ s >= 0 /\ s <= 59

(***************************************************************************)
(* str operations used by the code: int(), split, strip, lower,            *)
(* datetime.fromisoformat, datetime.strptime, datetime.isoformat           *)
(***************************************************************************)
Digits == <<"0", "1", "2", "3", "4", "5", "6", "7", "8", "9">>

IsDigit(c) == \E i \in 1..10 : Digits[i] = c

DigitVal(c) == (CHOOSE i \in 1..10 : Digits[i] = c) - 1

AllDigits(s) == Len(s) > 0 /\ \A i \in 1..Len(s) : IsDigit(s[i])

RECURSIVE ParseInt(_)
ParseInt(s) ==
  IF Len(s) = 0 THEN 0
  ELSE ParseInt(SubSeq(s, 1, Len(s) - 1)) * 10 + DigitVal(s[Len(s)])

Pad2(n) == <<Digits[((n \div 10) % 10) + 1], Digits[(n % 10) + 1]>>

Pad4(n) == Pad2(n \div 100) \o Pad2(n % 100)

\* str.count(c)
Count(s, c) == Cardinality({i \in 1..Len(s) : s[i] = c})

\* datetime.isoformat() of a datetime without microseconds
isoformat(dt) ==
  Pad4(dt.year) \o <<"-">> \o Pad2(dt.month) \o <<"-">> \o Pad2(dt.day) \o <<"T">>
    \o Pad2(dt.hour) \o <<":">> \o Pad2(dt.minute) \o <<":">> \o Pad2(dt.second)

\* the parsers return None where Python raises ValueError
ParseDate(ys, ms, ds) ==
  IF AllDigits(ys) /\ AllDigits(ms) /\ AllDigits(ds)
       /\ ValidDateTime(ParseInt(ys), ParseInt(ms), ParseInt(ds), 0, 0, 0)
  THEN Some(DateTime(ParseInt(ys), ParseInt(ms), ParseInt(ds), 0, 0, 0))
  ELSE None

ParseClock(date, hs, mis, ss) ==
  IF ~IsNone(date) /\ AllDigits(hs) /\ AllDigits(mis) /\ AllDigits(ss)
       /\ ParseInt(hs) <= 23 /\ ParseInt(mis) <= 59 /\ ParseInt(ss) <= 59
  THEN Some([Get(date) EXCEPT !.hour = ParseInt(hs), !.minute = ParseInt(mis),
                              !.second = ParseInt(ss)])
  ELSE None

\* the layout YYYY-MM-DD followed by nothing or by a separator and HH:MM:SS
ParseFixed(s, seps) ==
  IF Len(s) = 10 /\ s[5] = "-" /\ s[8] = "-"
  THEN ParseDate(SubSeq(s, 1, 4), SubSeq(s, 6, 7), SubSeq(s, 9, 10))
  ELSE IF Len(s) = 19 /\ s[5] = "-" /\ s[8] = "-" /\ s[11] \in seps
            /\ s[14] = ":" /\ s[17] = ":"
  THEN ParseClock(ParseDate(SubSeq(s, 1, 4), SubSeq(s, 6, 7), SubSeq(s, 9, 10)),
                  SubSeq(s, 12, 13), SubSeq(s, 15, 16), SubSeq(s, 18, 19))
  ELSE None

\* datetime.fromisoformat on the date and date-time layouts
fromisoformat(s) == ParseFixed(s, {"T", " "})

\* datetime.strptime(s, "%Y-%m-%d %H:%M:%S")
strptime_datetime(s) == IF Len(s) = 19 THEN ParseFixed(s, {" "}) ELSE None

\* positions of "-" in s
Dashes(s) == {i \in 1..Len(s) : s[i] = "-"}

\* datetime.strptime(s, "%Y-%m-%d"): four-digit year, one- or two-digit month and day
strptime_date(s) ==
  IF Cardinality(Dashes(s)) = 2
  THEN LET i == CHOOSE a \in Dashes(s) : \A b \in Dashes(s) : a <= b
           j == CHOOSE a \in Dashes(s) : \A b \in Dashes(s) : a >= b
       IN IF i = 5 /\ j - i \in {2, 3} /\ Len(s) - j \in {1, 2}
          THEN ParseDate(SubSeq(s, 1, 4), SubSeq(s, i + 1, j - 1), SubSeq(s, j + 1, Len(s)))
          ELSE None
  ELSE None

Upper == <<"A", "B", "C", "D", "E", "F", "G", "H", "I", "J", "K", "L", "M",
           "N", "O", "P", "Q", "R", "S", "T", "U", "V", "W", "X", "Y", "Z">>

Lowercase == <<"a", "b", "c", "d", "e", "f", "g", "h", "i", "j", "k", "l", "m",
               "n", "o", "p", "q", "r", "s", "t", "u", "v", "w", "x", "y", "z">>

LowerChar(c) ==
  IF \E i \in 1..26 : Upper[i] = c
  THEN Lowercase[CHOOSE i \in 1..26 : Upper[i] = c]
  ELSE c

\* str.lower()
lower(s) == [i \in 1..Len(s) |-> LowerChar(s[i])]

IsSpace(c) == c = " "

\* str.strip()
RECURSIVE strip(_)
strip(s) ==
  IF Len(s) = 0 THEN s
  ELSE IF IsSpace(s[1]) THEN strip(Tail(s))
  ELSE IF IsSpace(s[Len(s)]) THEN strip(SubSeq(s, 1, Len(s) - 1))
  ELSE s

\* str.split(): the maximal runs of non-whitespace characters, in order
RECURSIVE SplitFrom(_, _, _)
SplitFrom(s, i, cur) ==
  IF i > Len(s) THEN (IF Len(cur) = 0 THEN <<>> ELSE <<cur>>)
  ELSE IF IsSpace(s[i])
       THEN (IF Len(cur) = 0 THEN <<>> ELSE <<cur>>) \o SplitFrom(s, i + 1, <<>>)
       ELSE SplitFrom(s, i + 1, Append(cur, s[i]))

split(s) == SplitFrom(s, 1, <<>>)

\* column ILIKE '%pat%': case-insensitive substring; NULL matches nothing
Contains(s, pat) ==
  \E i \in 0..Len(s) :
    i + Len(pat) <= Len(s) /\ \A k \in 1..Len(pat) : LowerChar(s[i + k]) = LowerChar(pat[k])

ilike(col, pat) == ~IsNone(col) /\ Contains(Get(col), pat)

(***************************************************************************)
(* The store: the users table in the store's return order, and one table   *)
(* of rows per reading type.                                               *)
(***************************************************************************)
\* the keys of model_map
ReadingTypes ==
  {"glucose", "blood_pressure", "body_temperature", "hrv", "spo2", "stress", "sleep", "activity"}

\* the columns of each model class that the service reads
Columns(reading_type) ==
  CASE reading_type = "blood_pressure" -> {"id", "patient_id", "timestamp", "systolic", "diastolic"}
    [] reading_type = "body_temperature" -> {"id", "patient_id", "timestamp", "temperature"}
    [] reading_type = "sleep" -> {"id", "patient_id", "date", "value", "level"}
    [] reading_type = "activity" -> {"id", "patient_id", "date", "total_step"}
    [] OTHER -> {"id", "patient_id", "timestamp", "value"}

\* hasattr(reading, name)
hasattr(row, name) == name \in DOMAIN row

_get_value_field(reading_type) ==
  IF reading_type = "blood_pressure" THEN "systolic"
  ELSE IF reading_type = "body_temperature" THEN "temperature"
  ELSE "value"

(***************************************************************************)
(* BaseService.find_patient_by_name_or_id                                  *)
(***************************************************************************)
\* first_name + ' ' + last_name in SQL: NULL when either side is NULL
FullName(u) ==
  IF IsNone(u.first_name) \/ IsNone(u.last_name) THEN None
  ELSE Some(Get(u.first_name) \o <<" ">> \o Get(u.last_name))

FirstAndLast(first_part, last_part, u) ==
  ilike(u.first_name, first_part) /\ ilike(u.last_name, last_part)

AnyNamePart(name_lower, u) ==
  ilike(u.first_name, name_lower) \/ ilike(u.last_name, name_lower)

Broader(name_lower, u) ==
  AnyNamePart(name_lower, u) \/ ilike(FullName(u), name_lower)

\* a lookup without the combined first and last name match
NameCandidates_BroaderOnly(users, patient_name) ==
  LET name_lower == strip(lower(patient_name))
      name_parts == split(name_lower)
  IN IF Len(name_parts) >= 2
     THEN SelectSeq(users, LAMBDA u : Broader(name_lower, u))
     ELSE SelectSeq(users, LAMBDA u : AnyNamePart(name_lower, u))

\* user_query.filter(...).all(): the matching users in the store's return order
NameCandidates(users, patient_name) ==
  LET name_lower == strip(lower(patient_name))
      name_parts == split(name_lower)
  IN IF Len(name_parts) >= 2
     THEN LET both == SelectSeq(users, LAMBDA u : FirstAndLast(name_parts[1], name_parts[Len(name_parts)], u))
          IN IF Len(both) = 0
             THEN SelectSeq(users, LAMBDA u : Broader(name_lower, u))
             ELSE both
     ELSE SelectSeq(users, LAMBDA u : AnyNamePart(name_lower, u))

\* a lookup that falls back to the first user when no name matches
find_patient_by_name_or_id_FirstUser(users, patient_id, patient_name) ==
  IF (~IsNone(patient_name) /\ Len(Get(patient_name)) > 0)
       /\ (IsNone(patient_id) \/ Get(patient_id) = 0)
  THEN LET found == NameCandidates(users, Get(patient_name))
       IN IF Len(found) > 0 THEN Some(found[1].id)
          ELSE IF Len(users) > 0 THEN Some(users[1].id) ELSE patient_id
  ELSE patient_id

\* patient_id: Optional int, patient_name: Optional str; returns Optional int
find_patient_by_name_or_id(users, patient_id, patient_name) ==
  IF (~IsNone(patient_name) /\ Len(Get(patient_name)) > 0)
       /\ (IsNone(patient_id) \/ Get(patient_id) = 0)
  THEN LET found == NameCandidates(users, Get(patient_name))
       IN IF Len(found) > 0 THEN Some(found[1].id) ELSE patient_id
  ELSE patient_id

(***************************************************************************)
(* ORDER BY ... LIMIT n                                                    *)
(***************************************************************************)
Min2(a, b) == IF a <= b THEN a ELSE b

\* ORDER BY key DESC over the rows S: every sequence the store may return;
\* rows with equal keys come in any order
RECURSIVE OrderedDesc(_, _)
OrderedDesc(S, key) ==
  IF S = {} THEN {<<>>}
  ELSE UNION {{<<m>> \o t : t \in OrderedDesc(S \ {m}, key)} :
                m \in {x \in S : \A y \in S : key[y] <= key[x]}}

\* a query that orders by the timestamp where it should order by the value column
ColumnKey_ByTimestamp(S, col) == [r \in S |-> Secs(r.timestamp)]

\* the sort key of a nullable numeric column: NULL sorts below every value
ColumnKey(S, col) ==
  LET vals == {Get(r[col]) : r \in {x \in S : ~IsNone(x[col])}}
      floor == IF vals = {} THEN 0 ELSE CHOOSE v \in vals : \A w \in vals : v <= w
  IN [r \in S |-> IF IsNone(r[col]) THEN floor - 1 ELSE Get(r[col])]

Negated(key) == [r \in DOMAIN key |-> 0 - key[r]]

\* an ORDER BY on the timestamp that puts the oldest row first
TimeKey_Oldest(S, col) == [r \in S |-> 0 - Secs(r[col])]

TimeKey(S, col) == [r \in S |-> Secs(r[col])]

\* query.limit(n).all()
Limit(rows, n) == SubSeq(rows, 1, Min2(n, Len(rows)))

(***************************************************************************)
(* MedicalReadingsService.get_specific_reading_value                       *)
(***************************************************************************)
Error(msg) == [error |-> msg]

IsError(res) == "error" \in DOMAIN res

timestamp_field(reading_type) == IF reading_type = "sleep" THEN "date" ELSE "timestamp"

Morning == {<<"m", "o", "r", "n", "i", "n", "g">>, <<"a", "m">>}

Night == {<<"n", "i", "g", "h", "t">>, <<"e", "v", "e", "n", "i", "n", "g">>, <<"p", "m">>}

\* a morning that ends before 12:00:00
InTimeRange_NoonOut(time_range, t) ==
  IF lower(time_range) \in Morning
  THEN TimeOfDay(t) >= Hours(6) /\ TimeOfDay(t) < Hours(12)
  ELSE IF lower(time_range) \in Night
  THEN TimeOfDay(t) >= Hours(18) /\ TimeOfDay(t) <= Hours(23) + 59 * 60
  ELSE TRUE

\* the time-of-day filter of a day or month query on non-sleep data
InTimeRange(time_range, t) ==
  IF lower(time_range) \in Morning
  THEN TimeOfDay(t) >= Hours(6) /\ TimeOfDay(t) <= Hours(12)
  ELSE IF lower(time_range) \in Night
  THEN TimeOfDay(t) >= Hours(18) /\ TimeOfDay(t) <= Hours(23) + 59 * 60
  ELSE TRUE

\* a month window that ends at 00:00:00 of the last day
InMonth_EndAtMidnight(date_filter, t) ==
  LET year == date_filter.year
      month == date_filter.month
      last_day == monthrange(year, month)
      month_start == DateTime(year, month, 1, 0, 0, 0)
      month_end == DateTime(year, month, last_day, 0, 0, 0)
  IN Secs(t) >= Secs(month_start) /\ Secs(t) <= Secs(month_end)

InMonth(date_filter, t) ==
  LET year == date_filter.year
      month == date_filter.month
      last_day == monthrange(year, month)
      month_start == DateTime(year, month, 1, 0, 0, 0)
      month_end == DateTime(year, month, last_day, 23, 59, 59)
  IN Secs(t) >= Secs(month_start) /\ Secs(t) <= Secs(month_end)

\* a day window that takes 00:00:00 of the following day in
InDay_Closed(date_filter, t) ==
  Secs(t) >= Secs(date_filter) /\ Secs(t) <= Secs(date_filter) + Days(1)

InDay(date_filter, t) ==
  Secs(t) >= Secs(date_filter) /\ Secs(t) < Secs(date_filter) + Days(1)

\* a point window without its two ends
InPoint_Open(specific_time, t) ==
  Secs(t) > Secs(specific_time) - Hours(1) /\ Secs(t) < Secs(specific_time) + Hours(1)

InPoint(specific_time, t) ==
  Secs(t) >= Secs(specific_time) - Hours(1) /\ Secs(t) <= Secs(specific_time) + Hours(1)

\* a WHERE clause that applies the date window next to the point window
TimeFilter_DateAlso(a, t) ==
  /\ IsNone(a.specific_time) \/ InPoint(Get(a.specific_time), t)
  /\ IsNone(a.date_filter)
       \/ IF a.month_filter THEN InMonth(Get(a.date_filter), t)
                            ELSE InDay(Get(a.date_filter), t)

\* the WHERE clause built at lines 62-102, on the timestamp t of a row
TimeFilter(a, t) ==
  IF ~IsNone(a.specific_time) THEN InPoint(Get(a.specific_time), t)
  ELSE IF ~IsNone(a.date_filter)
  THEN /\ IF a.month_filter THEN InMonth(Get(a.date_filter), t)
                            ELSE InDay(Get(a.date_filter), t)
       /\ IF ~IsNone(a.time_range) /\ Len(Get(a.time_range)) > 0 /\ a.reading_type # "sleep"
          THEN InTimeRange(Get(a.time_range), t)
          ELSE TRUE
  ELSE TRUE

\* the rows the query matches before ORDER BY and LIMIT
Matched(st, a, patient_id) ==
  {r \in st.tables[a.reading_type] :
     r.patient_id = patient_id /\ TimeFilter(a, r[timestamp_field(a.reading_type)])}

\* getattr(model, name) on a column the model class does not have
RaisesAttributeError(a) ==
  LET cols == Columns(a.reading_type)
      tsf == timestamp_field(a.reading_type)
  IN \/ (~IsNone(a.specific_time) \/ ~IsNone(a.date_filter)) /\ tsf \notin cols
     \/ a.analysis_type \in {"highest", "lowest"} /\ _get_value_field(a.reading_type) \notin cols
     \/ a.analysis_type \notin {"highest", "lowest"} /\ tsf \notin cols

\* lines 104-123: the possible values of readings
Fetch(st, a, patient_id) ==
  LET rows == Matched(st, a, patient_id)
      byValue == ColumnKey(rows, _get_value_field(a.reading_type))
      byTime == TimeKey(rows, timestamp_field(a.reading_type))
  IN IF a.analysis_type = "highest"
     THEN {Limit(s, a.limit) : s \in OrderedDesc(rows, byValue)}
     ELSE IF a.analysis_type = "lowest"
     THEN {Limit(s, a.limit) : s \in OrderedDesc(rows, Negated(byValue))}
     ELSE IF a.analysis_type = "specific" /\ a.reading_type # "sleep"
     THEN {Limit(s, 1) : s \in OrderedDesc(rows, byTime)}
     ELSE IF a.reading_type = "sleep"
     THEN OrderedDesc(rows, byTime)
     ELSE {Limit(s, a.limit) : s \in OrderedDesc(rows, byTime)}

(***************************************************************************)
(* MedicalReadingsService._process_sleep_data                              *)
(***************************************************************************)
RECURSIVE SumSeq(_)
SumSeq(xs) == IF Len(xs) = 0 THEN 0 ELSE xs[1] + SumSeq(Tail(xs))

\* getattr(reading, 'value', 0) or 0
sleep_value(reading) ==
  IF hasattr(reading, "value") /\ ~IsNone(reading.value) THEN Get(reading.value) ELSE 0

\* getattr(reading, 'level', None)
level(reading) == IF hasattr(reading, "level") THEN reading.level ELSE None

\* line 153: the rows that count towards total_sleep_minutes
CountsAsSleep(reading) ==
  sleep_value(reading) > 0 /\ ~IsNone(level(reading)) /\ Get(level(reading)) \in {0, 1, 2}

\* lines 157-164: the minutes added to the bucket of level l
BucketMinutes(readings, l) ==
  SumSeq([i \in 1..Len(readings) |->
            IF level(readings[i]) = Some(l) THEN sleep_value(readings[i]) ELSE 0])

RECURSIVE Pow2(_)
Pow2(n) == IF n <= 0 THEN 1 ELSE 2 * Pow2(n - 1)

RECURSIVE Pow2Mod60(_)
Pow2Mod60(n) == IF n <= 0 THEN 1 ELSE (2 * Pow2Mod60(n - 1)) % 60

\* floor(log2(T / 60)) for T >= 1: the binary exponent of the double T / 60.0
RECURSIVE ExponentUp(_, _)
ExponentUp(T, e) == IF 60 * Pow2(e + 1) <= T THEN ExponentUp(T, e + 1) ELSE e

RECURSIVE ExponentDown(_, _)
ExponentDown(T, d) == IF T * Pow2(d) >= 60 THEN 0 - d ELSE ExponentDown(T, d + 1)

QuotientExponent(T) == IF T >= 60 THEN ExponentUp(T, 0) ELSE ExponentDown(T, 1)

\* j with 2^j < m <= 2^(j+1), for m >= 1
RECURSIVE BinadeBelow(_, _)
BinadeBelow(m, j) == IF Pow2(j + 1) < m THEN BinadeBelow(m, j + 1) ELSE j

\* int((total / 60.0 - int(total / 60.0)) * 60) in IEEE-754 double arithmetic, for
\* an integer total >= 0.  With total = 60h + m: q = fl(total/60) misses total/60 by
\* r / (60 * 2^k) downwards when 0 < r < 30, for k = 52 - exponent(q) and
\* r = total * 2^k mod 60 (r = 30 cannot occur); q - h is exact; fl(60 * (q - h))
\* is m itself iff r * 2^-k is at most half the spacing of the doubles below m,
\* and otherwise a double below m, which int() truncates to m - 1.
remaining_minutes(total) ==
  LET m == total % 60
      e == QuotientExponent(total)
      r == (m * Pow2Mod60(52 - e)) % 60
      x == BinadeBelow(m, 0 - 1) - e - 1
  IN IF m = 0 \/ r = 0 \/ r > 30 THEN m
     ELSE IF x >= 0 /\ r <= Pow2(x) THEN m
     ELSE m - 1

\* round(minutes / 60.0, 2), in hundredths of an hour
HoursRounded(minutes) == (10 * minutes + 3) \div 6

\* the f-string of line 186
Duration(hours, minutes) ==
  IF minutes > 0 THEN [hours |-> hours, and_minutes |-> Some(minutes)]
  ELSE [hours |-> hours, and_minutes |-> None]

_process_sleep_data(readings, patient_id, date_filter, analysis_type) ==
  LET total_sleep_minutes ==
        SumSeq([i \in 1..Len(readings) |->
                  IF CountsAsSleep(readings[i]) THEN sleep_value(readings[i]) ELSE 0])
      deep == BucketMinutes(readings, 0)
      light == BucketMinutes(readings, 1)
      rem == BucketMinutes(readings, 2)
      awake == BucketMinutes(readings, 3)
      hours == total_sleep_minutes \div 60
      remaining == remaining_minutes(total_sleep_minutes)
  IN [patient_id |-> patient_id,
      reading_type |-> "sleep",
      date_filter |-> IF IsNone(date_filter) THEN None
                      ELSE Some(SubSeq(isoformat(Get(date_filter)), 1, 10)),
      total_sleep_records |-> Len(readings),
      total_sleep_minutes |-> total_sleep_minutes,
      total_sleep_hours |-> [minutes |-> total_sleep_minutes, per_hour |-> 60],
      total_sleep_duration |-> Duration(hours, remaining),
      sleep_breakdown |->
        [deep_sleep_minutes |-> deep, light_sleep_minutes |-> light,
         rem_sleep_minutes |-> rem, awake_minutes |-> awake,
         deep_sleep_hours |-> HoursRounded(deep), light_sleep_hours |-> HoursRounded(light),
         rem_sleep_hours |-> HoursRounded(rem), awake_hours |-> HoursRounded(awake)],
      summary |-> [text |-> "Total sleep time", hours |-> hours, minutes |-> remaining,
                   records |-> Len(readings), awake |-> awake]]

(***************************************************************************)
(* MedicalReadingsService._process_standard_readings                       *)
(***************************************************************************)
ValueFields(reading) ==
  IF hasattr(reading, "value") /\ ~IsNone(reading.value)
  THEN [value |-> Get(reading.value)]
  ELSE IF hasattr(reading, "temperature") /\ ~IsNone(reading.temperature)
  THEN [temperature |-> Get(reading.temperature)]
  ELSE IF hasattr(reading, "systolic") /\ ~IsNone(reading.systolic)
  THEN [systolic |-> Get(reading.systolic), diastolic |-> reading.diastolic]
  ELSE [timestamp |-> None]

reading_dict(reading) ==
  [timestamp |-> IF hasattr(reading, "timestamp") THEN Some(isoformat(reading.timestamp)) ELSE None,
   date |-> IF hasattr(reading, "date") THEN Some(isoformat(reading.date)) ELSE None]
    @@ ValueFields(reading)

_process_standard_readings(readings, patient_id, reading_type, analysis_type) ==
  LET reading_list == [i \in 1..Len(readings) |-> reading_dict(readings[i])]
  IN [patient_id |-> patient_id,
      reading_type |-> reading_type,
      analysis_type |-> analysis_type,
      readings |-> reading_list,
      count |-> Len(reading_list),
      message |-> [text |-> "Found", count |-> Len(reading_list),
                   analysis_type |-> IF analysis_type \in {"highest", "lowest"}
                                     THEN Some(analysis_type) ELSE None,
                   reading_type |-> reading_type]]

\* line 57: f"Invalid reading type: {reading_type}"
InvalidReadingType(reading_type) ==
  [error |-> "Invalid reading type", reading_type |-> reading_type]

\* the results the call can return; more than one where the store's order of
\* equal sort keys decides
\* self.db.query(...).all() on a store whose queries raise (a lost connection,
\* an SQL error)
StoreRaises(st) == "raises" \in DOMAIN st /\ st.raises

\* an exception leaving a try body
Raised(exc) == [raised |-> exc]

\* lines 50-130: the try body; its outcome is a payload or a raised exception
Try_get_specific_reading_value(st, a) ==
  LET patient_id == find_patient_by_name_or_id(st.users, a.patient_id, a.patient_name)
      looks_up == (~IsNone(a.patient_name) /\ Len(Get(a.patient_name)) > 0)
                    /\ (IsNone(a.patient_id) \/ Get(a.patient_id) = 0)
  IN IF StoreRaises(st) /\ looks_up
     THEN {Raised("OperationalError")}
     ELSE IF IsNone(patient_id) \/ Get(patient_id) = 0
     THEN {Error("Patient not found")}
     ELSE IF a.reading_type \notin ReadingTypes
     THEN {InvalidReadingType(a.reading_type)}
     ELSE IF RaisesAttributeError(a)
     THEN {Error("Database error")}
     ELSE IF StoreRaises(st)
     THEN {Raised("OperationalError")}
     ELSE {IF a.reading_type = "sleep"
           THEN _process_sleep_data(readings, Get(patient_id), a.date_filter, a.analysis_type)
           ELSE _process_standard_readings(readings, Get(patient_id), a.reading_type,
                                           a.analysis_type) :
             readings \in Fetch(st, a, Get(patient_id))}

\* an except clause that lets the exception through
Caught_Reraise(outcome) == outcome

\* except Exception as e: return {"error": f"Database error: {str(e)}"}
Caught(outcome) == IF "raised" \in DOMAIN outcome THEN Error("Database error") ELSE outcome

get_specific_reading_value(st, a) ==
  {Caught(outcome) : outcome \in Try_get_specific_reading_value(st, a)}

\* base_service.py lines 24-53: the queries on the users table the lookup issues
LookupQueries(users, patient_id, patient_name) ==
  IF (~IsNone(patient_name) /\ Len(Get(patient_name)) > 0)
       /\ (IsNone(patient_id) \/ Get(patient_id) = 0)
  THEN LET name_lower == strip(lower(Get(patient_name)))
           name_parts == split(name_lower)
       IN IF Len(name_parts) >= 2
               /\ Len(SelectSeq(users, LAMBDA u :
                         FirstAndLast(name_parts[1], name_parts[Len(name_parts)], u))) = 0
          THEN <<"users", "users">>
          ELSE <<"users">>
  ELSE <<>>

\* the tables the call queries, in the order of the queries
Queries_get_specific_reading_value(st, a) ==
  LET patient_id == find_patient_by_name_or_id(st.users, a.patient_id, a.patient_name)
      lookup == LookupQueries(st.users, a.patient_id, a.patient_name)
  IN IF StoreRaises(st) /\ lookup # <<>> THEN <<"users">>
     ELSE IF IsNone(patient_id) \/ Get(patient_id) = 0 THEN lookup
     ELSE IF a.reading_type \notin ReadingTypes THEN lookup
     ELSE IF RaisesAttributeError(a) THEN lookup
     ELSE lookup \o <<a.reading_type>>

(***************************************************************************)
(* MedicalReadingsService.get_high_low_readings                            *)
(***************************************************************************)
\* the thresholds table; body_temperature in tenths of a degree (100.4, 96.0)
thresholds ==
  [glucose |-> [high |-> 180, low |-> 70],
   blood_pressure |-> [high |-> 140, low |-> 90],
   body_temperature |-> [high |-> 1004, low |-> 960],
   hrv |-> [high |-> 50, low |-> 20],
   spo2 |-> [high |-> 100, low |-> 90],
   stress |-> [high |-> 80, low |-> 20]]

\* f"{user.first_name} {user.last_name}"
NameText(name) == IF IsNone(name) THEN <<"N", "o", "n", "e">> ELSE Get(name)

patient_name_of(user) == NameText(user.first_name) \o <<" ">> \o NameText(user.last_name)

\* a filter that lets the threshold itself through
Qualifies_Inclusive(find_type, value, threshold) ==
  IF find_type = "high" THEN ~IsNone(value) /\ Get(value) >= threshold
  ELSE ~IsNone(value) /\ Get(value) <= threshold

\* the comparison of the value column with the threshold; NULL never qualifies
Qualifies(find_type, value, threshold) ==
  IF find_type = "high" THEN ~IsNone(value) /\ Get(value) > threshold
  ELSE ~IsNone(value) /\ Get(value) < threshold

\* model JOIN users, filtered by the day and the threshold
Joined(st, a) ==
  {r \in st.tables[a.reading_type] :
     /\ \E i \in 1..Len(st.users) : st.users[i].id = r.patient_id
     /\ IsNone(a.date_filter) \/ InDay(Get(a.date_filter), r.timestamp)
     /\ a.find_type \in {"high", "low"} =>
          Qualifies(a.find_type, r[_get_value_field(a.reading_type)],
                    thresholds[a.reading_type][a.find_type])}

UserOf(st, r) == st.users[CHOOSE i \in 1..Len(st.users) : st.users[i].id = r.patient_id]

GroupIndex(groups, patient_id) ==
  IF \E i \in 1..Len(groups) : groups[i].patient_id = patient_id
  THEN CHOOSE i \in 1..Len(groups) : groups[i].patient_id = patient_id
  ELSE 0

\* a group that keeps the value it was created with as its highest
Higher_KeepFirst(value, current) == current

\* lines 352-353 and 354-355: the extremes of a group, updated on every reading
Higher(value, current) == IF value > current THEN value ELSE current

Lower(value, current) == IF value < current THEN value ELSE current

\* lines 321-355: one turn of the loop, on reading r and its user
AddReading(groups, r, user, reading_type) ==
  LET value == Get(r[_get_value_field(reading_type)])
      fresh == [patient_id |-> user.id,
                patient_name |-> patient_name_of(user),
                reading_type |-> reading_type,
                readings |-> <<>>,
                highest_value |-> value,
                lowest_value |-> value,
                total_readings |-> 0]
      gs == IF GroupIndex(groups, user.id) = 0 THEN Append(groups, fresh) ELSE groups
      i == GroupIndex(gs, user.id)
      entry == [timestamp |-> Some(isoformat(r.timestamp)), value |-> value]
                 @@ (IF reading_type = "blood_pressure"
                     THEN [diastolic |-> r.diastolic] ELSE [value |-> value])
  IN [gs EXCEPT ![i] =
        [@ EXCEPT !.readings = Append(@, entry),
                  !.total_readings = @ + 1,
                  !.highest_value = Higher(value, @),
                  !.lowest_value = Lower(value, @)]]

RECURSIVE GroupLoop(_, _, _, _)
GroupLoop(st, results, reading_type, groups) ==
  IF Len(results) = 0 THEN groups
  ELSE GroupLoop(st, Tail(results), reading_type,
                 AddReading(groups, results[1], UserOf(st, results[1]), reading_type))

\* the order in which a stable ascending sort visits the positions of keys
RECURSIVE StableOrder(_, _)
StableOrder(keys, remaining) ==
  IF remaining = {} THEN <<>>
  ELSE LET first == CHOOSE i \in remaining : \A j \in remaining :
                      keys[i] < keys[j] \/ (keys[i] = keys[j] /\ i <= j)
       IN <<first>> \o StableOrder(keys, remaining \ {first})

\* sorted(xs, key=...) and list.sort(key=...)
SortStable(xs, keys) ==
  LET order == StableOrder(keys, 1..Len(xs)) IN [k \in 1..Len(xs) |-> xs[order[k]]]

\* a descending sort that forgot reverse=True
SortStableReverse_Ascending(xs, keys) == SortStable(xs, keys)

\* the same with reverse=True: descending, equal keys keep their order
SortStableReverse(xs, keys) == SortStable(xs, [i \in 1..Len(xs) |-> 0 - keys[i]])

\* a display list without its cap
Shown_All(readings) == readings

\* line 360: readings[:5]
Shown(readings) == SubSeq(readings, 1, Min2(5, Len(readings)))

_group_readings_by_patient(st, results, reading_type, find_type) ==
  LET patient_groups == GroupLoop(st, results, reading_type, <<>>)
      distinct_patients ==
        [i \in 1..Len(patient_groups) |->
           [patient_groups[i] EXCEPT !.readings = Shown(@)]
             @@ [readings_shown |-> Len(Shown(patient_groups[i].readings))]]
  IN IF find_type = "high"
     THEN SortStableReverse(distinct_patients,
                            [i \in 1..Len(distinct_patients) |-> distinct_patients[i].highest_value])
     ELSE SortStable(distinct_patients,
                     [i \in 1..Len(distinct_patients) |-> distinct_patients[i].lowest_value])

\* list(self.model_map.keys())
ModelMapKeys ==
  <<"glucose", "blood_pressure", "body_temperature", "hrv", "spo2", "stress", "sleep",
    "activity">>

\* line 252: f"Invalid reading type: {reading_type}. Available types: {list(...)}"
InvalidReadingTypeOf(reading_type) ==
  [error |-> "Invalid reading type. Available types", reading_type |-> reading_type,
   available_types |-> ModelMapKeys]

\* an analysis that leaves every model in
SupportsHighLow_Every(reading_type) == TRUE

\* line 255: the keys of analysis_models
SupportsHighLow(reading_type) == reading_type \notin {"sleep", "activity"}

\* lines 249-302: the try body
Try_get_high_low_readings(st, a) ==
  IF a.reading_type \notin ReadingTypes
  THEN {InvalidReadingTypeOf(a.reading_type)}
  ELSE IF ~SupportsHighLow(a.reading_type)
  THEN {[error |-> "Reading type doesn't support high/low analysis",
         reading_type |-> a.reading_type]}
  ELSE IF a.find_type \notin {"high", "low"} \/ a.reading_type \notin DOMAIN thresholds
  THEN {Error("Database error")}
  ELSE IF StoreRaises(st)
  THEN {Raised("OperationalError")}
  ELSE LET rows == Joined(st, a)
       IN {LET distinct_patients ==
                 _group_readings_by_patient(st, results, a.reading_type, a.find_type)
           IN [reading_type |-> a.reading_type,
               find_type |-> a.find_type,
               threshold |-> thresholds[a.reading_type][a.find_type],
               date_filter |-> IF IsNone(a.date_filter) THEN None
                               ELSE Some(isoformat(Get(a.date_filter))),
               distinct_patients |-> distinct_patients,
               total_patients |-> Len(distinct_patients),
               total_readings |-> SumSeq([i \in 1..Len(distinct_patients) |->
                                            distinct_patients[i].total_readings]),
               message |-> [text |-> "Found distinct patients",
                            count |-> Len(distinct_patients),
                            find_type |-> a.find_type,
                            reading_type |-> a.reading_type]] :
             results \in OrderedDesc(rows, TimeKey(rows, "timestamp"))}

get_high_low_readings(st, a) ==
  {Caught(outcome) : outcome \in Try_get_high_low_readings(st, a)}

\* the tables the call queries: the join of the readings with users, or nothing
Queries_get_high_low_readings(st, a) ==
  IF a.reading_type \notin ReadingTypes \/ ~SupportsHighLow(a.reading_type) THEN <<>>
  ELSE IF a.find_type \in {"high", "low"} /\ a.reading_type \notin DOMAIN thresholds THEN <<>>
  ELSE <<a.reading_type>>

(***************************************************************************)
(* DatabaseManager delegates                                               *)
(***************************************************************************)
\* connected: whether the manager holds a session when the delegate runs
DatabaseManager_get_specific_reading_value(st, connected, kwargs) ==
  IF ~connected THEN {Error("Database connection failed")}
  ELSE {Caught(outcome) : outcome \in get_specific_reading_value(st, kwargs)}

DatabaseManager_get_high_low_readings(st, connected, kwargs) ==
  IF ~connected THEN {Error("Database connection failed")}
  ELSE {Caught(outcome) : outcome \in get_high_low_readings(st, kwargs)}

(***************************************************************************)
(* SpecificMedicalValueTool._run                                           *)
(***************************************************************************)
Text(msg) == [text |-> msg]

IsPatientRole(user_context) == ~IsNone(user_context) /\ Get(user_context).role_id = 1

\* a gate that takes the caller's own id only where the request names no patient id
GatedPatientId_AsDefault(user_context, patient_id) ==
  IF IsPatientRole(user_context) /\ IsNone(patient_id)
  THEN Get(user_context).user_id ELSE patient_id

\* lines 61-70: the patient reference the tool goes on with
GatedPatientId(user_context, patient_id) ==
  IF IsPatientRole(user_context) THEN Get(user_context).user_id ELSE patient_id

GatedPatientName(user_context, patient_name) ==
  IF IsPatientRole(user_context) THEN None ELSE patient_name

Truthy(optional_str) == ~IsNone(optional_str) /\ Len(Get(optional_str)) > 0

\* lines 78-85; None where both parsers raise ValueError
ParseSpecificTime(specific_time) ==
  IF ~IsNone(fromisoformat(specific_time)) THEN fromisoformat(specific_time)
  ELSE strptime_datetime(specific_time)

IsMonthShape(date_filter) == Len(date_filter) = 7 /\ Count(date_filter, "-") = 1

\* lines 90-95: year, month = date_filter.split('-'); datetime(int(year), int(month), 1)
ParseMonth(date_filter) ==
  LET dash == CHOOSE i \in 1..7 : date_filter[i] = "-"
  IN ParseDate(SubSeq(date_filter, 1, dash - 1), SubSeq(date_filter, dash + 1, 7), <<"1">>)

\* lines 87-105: [date, month_filter], or None where the tool returns the format error
ParseDateFilter(date_filter) ==
  LET first == IF IsMonthShape(date_filter) THEN ParseMonth(date_filter)
               ELSE fromisoformat(date_filter)
  IN IF ~IsNone(first)
     THEN Some([date |-> Get(first), month_filter |-> IsMonthShape(date_filter)])
     ELSE IF ~IsNone(strptime_date(date_filter))
     THEN Some([date |-> Get(strptime_date(date_filter)), month_filter |-> FALSE])
     ELSE None

ToolValueField(reading_type) ==
  IF reading_type = "body_temperature" THEN "temperature"
  ELSE IF reading_type = "blood_pressure" THEN "systolic"
  ELSE "value"

\* x.get(field, default)
DictGet(x, field, default) == IF field \in DOMAIN x THEN x[field] ELSE default

Head10(xs) == SubSeq(xs, 1, Min2(10, Len(xs)))

\* a key above every present value, for x.get(value_field, float('inf'))
Infinity(readings, field) ==
  1 + SumSeq([i \in 1..Len(readings) |->
                IF DictGet(readings[i], field, 0) > 0 THEN DictGet(readings[i], field, 0) ELSE 0])

\* lines 194-196: min(readings, key=...) returns the first reading at the least distance
Closest(readings, specific_datetime) ==
  LET distance(x) ==
        LET d == Secs(Get(fromisoformat(Get(x.timestamp)))) - Secs(specific_datetime)
        IN IF d < 0 THEN 0 - d ELSE d
  IN readings[CHOOSE i \in 1..Len(readings) : \A j \in 1..Len(readings) :
                distance(readings[i]) < distance(readings[j])
                  \/ (distance(readings[i]) = distance(readings[j]) /\ i <= j)]

\* lines 120-213: the string returned for a delegate result
Respond(a, specific_datetime, res) ==
  IF IsError(res) THEN [text |-> "Error"] @@ res
  ELSE IF a.reading_type = "sleep"
  THEN [reading_type |-> "sleep",
        patient_id |-> res.patient_id,
        date_filter |-> res.date_filter,
        total_sleep_records |-> res.total_sleep_records,
        total_sleep_hours |-> res.total_sleep_hours,
        total_sleep_duration |-> res.total_sleep_duration,
        sleep_breakdown |-> res.sleep_breakdown,
        summary |-> res.summary,
        individual_readings |-> <<>>]
  ELSE IF Len(res.readings) = 0
  THEN [text |-> "No readings found for patient", reading_type |-> a.reading_type,
        patient_id |-> res.patient_id]
  ELSE IF a.analysis_type = "highest"
  THEN LET value_field == ToolValueField(a.reading_type)
           sorted_readings ==
             SortStableReverse(res.readings,
               [i \in 1..Len(res.readings) |-> DictGet(res.readings[i], value_field, 0)])
           top_readings == Head10(sorted_readings)
       IN [analysis |-> "highest",
           reading_type |-> a.reading_type,
           patient_id |-> res.patient_id,
           highest_readings |-> top_readings,
           highest_value |-> IF value_field \in DOMAIN top_readings[1]
                             THEN Some(top_readings[1][value_field]) ELSE None,
           total_readings_found |-> Len(res.readings),
           showing_top |-> Len(top_readings)]
  ELSE IF a.analysis_type = "lowest"
  THEN LET value_field == ToolValueField(a.reading_type)
           sorted_readings ==
             SortStable(res.readings,
               [i \in 1..Len(res.readings) |->
                  DictGet(res.readings[i], value_field, Infinity(res.readings, value_field))])
           bottom_readings == Head10(sorted_readings)
       IN [analysis |-> "lowest",
           reading_type |-> a.reading_type,
           patient_id |-> res.patient_id,
           lowest_readings |-> bottom_readings,
           lowest_value |-> IF value_field \in DOMAIN bottom_readings[1]
                            THEN Some(bottom_readings[1][value_field]) ELSE None,
           total_readings_found |-> Len(res.readings),
           showing_bottom |-> Len(bottom_readings)]
  ELSE IF a.analysis_type = "specific" /\ ~IsNone(specific_datetime)
  THEN [analysis |-> "specific_time",
        reading_type |-> a.reading_type,
        patient_id |-> res.patient_id,
        closest_reading |-> Closest(res.readings, Get(specific_datetime)),
        requested_time |-> a.specific_time]
  ELSE [reading_type |-> a.reading_type,
        patient_id |-> res.patient_id,
        latest_reading |-> res.readings[1],
        total_readings_found |-> Len(res.readings)]

\* the keyword arguments of the delegate call at lines 108-118
ToolKwargs(a, user_context, specific_datetime, parsed_filter) ==
  [patient_id |-> GatedPatientId(user_context, a.patient_id),
   patient_name |-> GatedPatientName(user_context, a.patient_name),
   reading_type |-> a.reading_type,
   specific_time |-> specific_datetime,
   date_filter |-> IF IsNone(parsed_filter) THEN None ELSE Some(Get(parsed_filter).date),
   time_range |-> a.time_range,
   analysis_type |-> a.analysis_type,
   limit |-> 10,
   month_filter |-> IF IsNone(parsed_filter) THEN FALSE ELSE Get(parsed_filter).month_filter]

\* the strings _run can return, each with the delegate call it made (None: no call)
SpecificMedicalValueTool_run(st, connected, user_context, a) ==
  LET specific_datetime ==
        IF Truthy(a.specific_time) THEN ParseSpecificTime(Get(a.specific_time)) ELSE None
      parsed_filter ==
        IF Truthy(a.date_filter) THEN ParseDateFilter(Get(a.date_filter)) ELSE None
      kwargs == ToolKwargs(a, user_context, specific_datetime, parsed_filter)
  IN IF ~IsPatientRole(user_context) /\ IsNone(a.patient_id) /\ IsNone(a.patient_name)
     THEN {[out |-> Text("Please specify a patient ID or patient name"), engine |-> None]}
     ELSE IF Truthy(a.specific_time) /\ IsNone(specific_datetime)
     THEN {[out |-> Text("Error: Invalid specific_time format"), engine |-> None]}
     ELSE IF Truthy(a.date_filter) /\ IsNone(parsed_filter)
     THEN {[out |-> Text("Error: Invalid date_filter format"), engine |-> None]}
     ELSE {[out |-> Respond(a, specific_datetime, res),
            engine |-> Some([kwargs |-> kwargs, result |-> res,
                             queries |-> IF connected
                                         THEN Queries_get_specific_reading_value(st, kwargs)
                                         ELSE <<>>])] :
             res \in DatabaseManager_get_specific_reading_value(st, connected, kwargs)}

(***************************************************************************)
(* MultiPatientAnalysisTool._run                                           *)
(***************************************************************************)
\* lines 45-52
ParseDay(date_filter) ==
  IF ~IsNone(fromisoformat(date_filter)) THEN fromisoformat(date_filter)
  ELSE strptime_date(date_filter)

MultiKwargs(a, date_datetime) ==
  [reading_type |-> a.reading_type, date_filter |-> date_datetime,
   find_type |-> a.analysis_type, all_patients |-> TRUE]

MultiPatientAnalysisTool_run(st, connected, a) ==
  LET date_datetime == IF Truthy(a.date_filter) THEN ParseDay(Get(a.date_filter)) ELSE None
      kwargs == MultiKwargs(a, date_datetime)
  IN IF Truthy(a.date_filter) /\ IsNone(date_datetime)
     THEN {[out |-> Text("Error: Invalid date format"), engine |-> None]}
     ELSE {[out |-> IF IsError(res) THEN [text |-> "Error"] @@ res ELSE res,
            engine |-> Some([kwargs |-> kwargs, result |-> res,
                             queries |-> IF connected
                                         THEN Queries_get_high_low_readings(st, kwargs)
                                         ELSE <<>>])] :
             res \in DatabaseManager_get_high_low_readings(st, connected, kwargs)}

(***************************************************************************)
(* Actions: one per operation.  Requests and Contexts are the inputs the   *)
(* specification at hand draws from.                                       *)
(***************************************************************************)
\* no DatabaseManager and no service instance is kept between calls,
\* get_device_service has not been called, no chat session exists and no
\* /query request is being answered
NoOtherObjects ==
  /\ manager = None
  /\ device_service = None
  /\ session_agents = <<>>
  /\ service = None
  /\ requests = {}

GetSpecificReadingValue(Requests) ==
  \E a \in Requests : \E res \in get_specific_reading_value(store, a) :
    /\ call' = [op |-> "get_specific_reading_value", args |-> a]
    /\ engine' = Some([kwargs |-> a, result |-> res,
                       queries |-> Queries_get_specific_reading_value(store, a)])
    /\ result' = res
    /\ UNCHANGED <<store, manager, device_service, session_agents, service, requests>>

GetHighLowReadings(Requests) ==
  \E a \in Requests : \E res \in get_high_low_readings(store, a) :
    /\ call' = [op |-> "get_high_low_readings", args |-> a]
    /\ engine' = Some([kwargs |-> a, result |-> res,
                       queries |-> Queries_get_high_low_readings(store, a)])
    /\ result' = res
    /\ UNCHANGED <<store, manager, device_service, session_agents, service, requests>>

SpecificMedicalValueToolRun(Contexts, Requests) ==
  \E user_context \in Contexts, a \in Requests, connected \in BOOLEAN :
    \E r \in SpecificMedicalValueTool_run(store, connected, user_context, a) :
      /\ call' = [op |-> "SpecificMedicalValueTool._run", args |-> a,
                  user_context |-> user_context, connected |-> connected]
      /\ engine' = r.engine
      /\ result' = r.out
      /\ UNCHANGED <<store, manager, device_service, session_agents, service, requests>>

MultiPatientAnalysisToolRun(Requests) ==
  \E a \in Requests, connected \in BOOLEAN :
    \E r \in MultiPatientAnalysisTool_run(store, connected, a) :
      /\ call' = [op |-> "MultiPatientAnalysisTool._run", args |-> a, connected |-> connected]
      /\ engine' = r.engine
      /\ result' = r.out
      /\ UNCHANGED <<store, manager, device_service, session_agents, service, requests>>

NoCall == [op |-> "none"]

(***************************************************************************)
(* Stores                                                                  *)
(***************************************************************************)
\* the users table in the store's return order: two patients and a doctor
UsersTable ==
  <<[id |-> 1, first_name |-> Some(<<"A", "n", "n">>), last_name |-> Some(<<"L", "e", "e">>), role_id |-> 1],
    [id |-> 2, first_name |-> Some(<<"B", "o">>), last_name |-> Some(<<"L", "e", "e">>), role_id |-> 1],
    [id |-> 7, first_name |-> Some(<<"D", "o", "c">>), last_name |-> Some(<<"R", "a", "y">>), role_id |-> 2]>>

PatientIds == {1, 2}

\* a row of the table of reading_type; k tells rows with equal columns apart
Row(reading_type, k, patient_id, at, v) ==
  CASE reading_type = "blood_pressure" ->
         [id |-> k, patient_id |-> patient_id, timestamp |-> at,
          systolic |-> Some(v), diastolic |-> Some(80)]
    [] reading_type = "body_temperature" ->
         [id |-> k, patient_id |-> patient_id, timestamp |-> at, temperature |-> Some(v)]
    [] reading_type = "activity" ->
         [id |-> k, patient_id |-> patient_id, date |-> at, total_step |-> Some(v)]
    [] OTHER ->
         [id |-> k, patient_id |-> patient_id, timestamp |-> at, value |-> Some(v)]

SleepRow(k, patient_id, at, v, l) ==
  [id |-> k, patient_id |-> patient_id, date |-> at, value |-> v, level |-> l]

EmptyTables == [t \in ReadingTypes |-> {}]

\* the subsets of S with at most n elements
RECURSIVE UpTo(_, _)
UpTo(S, n) ==
  IF n = 0 THEN {{}}
  ELSE UpTo(S, n - 1) \cup UNION {{X \cup {x} : x \in S \ X} : X \in UpTo(S, n - 1)}

(***************************************************************************)
(* Specification Spec: point-in-time queries of one patient.               *)
(* The store holds glucose rows around 2025-07-16 10:00:00.                *)
(***************************************************************************)
MaxRows == 3

MaxLimit == 2

PointTime == DateTime(2025, 7, 16, 10, 0, 0)

PointTimes ==
  <<DateTime(2025, 7, 16, 8, 59, 59), DateTime(2025, 7, 16, 9, 0, 0),
    DateTime(2025, 7, 16, 9, 55, 0), DateTime(2025, 7, 16, 10, 50, 0),
    DateTime(2025, 7, 16, 11, 0, 0), DateTime(2025, 7, 16, 11, 0, 1)>>

\* candidate glucose rows: every patient at every time, the value telling them apart
PointRows ==
  {Row("glucose", 10 * p + i, p, PointTimes[i], 100 + 10 * i + p) :
     p \in PatientIds, i \in 1..Len(PointTimes)}

PointStores ==
  {[users |-> UsersTable,
    tables |-> [EmptyTables EXCEPT !["glucose"] = rows,
                                   !["activity"] = {Row("activity", 1, 1, PointTime, 4000)}]] :
     rows \in UpTo(PointRows, MaxRows)}

PointRequests ==
  [patient_id : {Some(1)}, patient_name : {None},
   reading_type : {"glucose", "activity"},
   specific_time : {None, Some(PointTime)}, date_filter : {None}, time_range : {None},
   analysis_type : {"specific", "latest"}, limit : 1..MaxLimit, month_filter : {FALSE}]

\* "2025-07-16T10:00:00", "2025-07-16 10:00:00" and "10am"
PointTimeStrings ==
  {isoformat(PointTime),
   [isoformat(PointTime) EXCEPT ![11] = " "],
   <<"1", "0", "a", "m">>}

PointToolRequests ==
  [patient_id : {None, Some(1)}, patient_name : {None},
   reading_type : {"glucose"},
   specific_time : {None} \cup {Some(t) : t \in PointTimeStrings},
   date_filter : {None}, time_range : {None}, analysis_type : {"specific"}]

Doctor == Some([role_id |-> 2, user_id |-> Some(7)])

Init ==
  /\ store \in PointStores
  /\ call = NoCall
  /\ engine = None
  /\ result = Text("")
  /\ NoOtherObjects

PointQuery == GetSpecificReadingValue(PointRequests)

PointTool == SpecificMedicalValueToolRun({Doctor}, PointToolRequests)

Next == PointQuery \/ PointTool

Spec == Init /\ [][Next]_vars

\* |t - T| in seconds
Distance(t, T) == IF Secs(t) >= Secs(T) THEN Secs(t) - Secs(T) ELSE Secs(T) - Secs(t)

\* the rows of a patient and reading type whose timestamp lies in [T - 1h, T + 1h]
PointWindow(reading_type, patient_id, T) ==
  {r \in store.tables[reading_type] :
     r.patient_id = patient_id /\ Distance(r.timestamp, T) <= 3600}

\* the tool answered a specific-time query on a reading type with timestamps
SpecificTimeAnswered ==
  /\ call.op = "SpecificMedicalValueTool._run"
  /\ call.args.analysis_type = "specific"
  /\ call.args.reading_type \notin {"sleep", "activity"}
  /\ ~IsNone(engine)
  /\ ~IsNone(Get(engine).kwargs.specific_time)
  /\ ~IsError(Get(engine).result)

\* C1: for a non-sleep single-patient query with analysisType=specific and a
\* specificTime T, whenever the window [T-1h, T+1h] holds rows of the patient,
\* exactly one reading is reported as closest_reading and it is a row of the
\* window whose distance to T is minimal over ALL rows of the window.
C1_ClosestOverWholeWindow ==
  SpecificTimeAnswered =>
    LET T == Get(Get(engine).kwargs.specific_time)
        W == PointWindow(call.args.reading_type, Get(engine).result.patient_id, T)
    IN W # {} =>
         /\ "closest_reading" \in DOMAIN result
         /\ \E r \in W :
              /\ result.closest_reading.timestamp = Some(isoformat(r.timestamp))
              /\ \A q \in W : Distance(r.timestamp, T) <= Distance(q.timestamp, T)

(***************************************************************************)
(* Specification SpecSleep: sleep queries of one patient on 2025-08-11.    *)
(***************************************************************************)
MaxSleepRows == 2

SleepDay == DateTime(2025, 8, 11, 0, 0, 0)

NextDay == DateTime(2025, 8, 12, 0, 0, 0)

\* minutes: missing, negative, zero and positive
SleepValues == <<None, Some(0 - 20), Some(0), Some(45)>>

\* missing, deep, light, REM, awake and an unknown level
SleepLevels == <<None, Some(0), Some(1), Some(2), Some(3), Some(5)>>

\* candidate rows: patient 1 on the day with every value and level, one row of
\* patient 1 on the next day and one row of patient 2 on the day
SleepRows ==
  {SleepRow(10 * i + j, 1, SleepDay, SleepValues[i], SleepLevels[j]) :
     i \in 1..Len(SleepValues), j \in 1..Len(SleepLevels)}
    \cup {SleepRow(1, 1, NextDay, Some(30), Some(1)), SleepRow(2, 2, SleepDay, Some(30), Some(1))}

SleepStores ==
  {[users |-> UsersTable, tables |-> [EmptyTables EXCEPT !["sleep"] = rows]] :
     rows \in UpTo(SleepRows, MaxSleepRows)}

SleepRequests ==
  [patient_id : {Some(1)}, patient_name : {None}, reading_type : {"sleep"},
   specific_time : {None}, date_filter : {Some(SleepDay)}, time_range : {None},
   analysis_type : {"specific", "highest", "lowest"}, limit : 1..MaxLimit,
   month_filter : {FALSE}]

SleepToolRequests ==
  [patient_id : {Some(1)}, patient_name : {None}, reading_type : {"sleep"},
   specific_time : {None}, date_filter : {Some(SubSeq(isoformat(SleepDay), 1, 10))},
   time_range : {None}, analysis_type : {"specific", "highest"}]

InitSleep ==
  /\ store \in SleepStores
  /\ call = NoCall
  /\ engine = None
  /\ result = Text("")
  /\ NoOtherObjects

SleepQuery == GetSpecificReadingValue(SleepRequests)

SleepTool == SpecificMedicalValueToolRun({Doctor}, SleepToolRequests)

NextSleep == SleepQuery \/ SleepTool

SpecSleep == InitSleep /\ [][NextSleep]_vars

\* the sum of f over the set S
RECURSIVE SetSum(_, _)
SetSum(S, f) ==
  IF S = {} THEN 0
  ELSE LET x == CHOOSE y \in S : TRUE IN f[x] + SetSum(S \ {x}, f)

\* the engine answered a sleep query with a sleep summary
SleepAnswered ==
  /\ call.op \in {"get_specific_reading_value", "SpecificMedicalValueTool._run"}
  /\ call.args.reading_type = "sleep"
  /\ ~IsNone(engine)
  /\ ~IsError(Get(engine).result)

\* the sleep rows of the patient on the requested day
SleepWindow ==
  LET day == Get(Get(engine).kwargs.date_filter)
  IN {r \in store.tables["sleep"] :
        /\ r.patient_id = Get(engine).result.patient_id
        /\ Secs(r.date) >= Secs(day) /\ Secs(r.date) < Secs(day) + 86400}

\* the minutes of the rows of S at level l, missing values counting as 0
StageMinutes(S, l) ==
  SetSum({r \in S : r.level = Some(l)},
         [r \in S |-> IF IsNone(r.value) THEN 0 ELSE Get(r.value)])

\* C2: for readingType=sleep, whatever the analysisType and the limit, the
\* aggregation covers every row of the patient in the window:
\* total_sleep_records is the number of rows in the window and the stage
\* breakdown is computed over all of them.
C2_SleepCoversWholeWindow ==
  SleepAnswered =>
    LET res == Get(engine).result
    IN /\ res.total_sleep_records = Cardinality(SleepWindow)
       /\ res.sleep_breakdown.deep_sleep_minutes = StageMinutes(SleepWindow, 0)
       /\ res.sleep_breakdown.light_sleep_minutes = StageMinutes(SleepWindow, 1)
       /\ res.sleep_breakdown.rem_sleep_minutes = StageMinutes(SleepWindow, 2)
       /\ res.sleep_breakdown.awake_minutes = StageMinutes(SleepWindow, 3)

\* C3: for every set of sleep rows (any level; zero, negative or missing
\* values) total_sleep_minutes = deep + light + rem minutes, and
\* total_sleep_minutes <= deep + light + rem + awake minutes.
C3_SleepTotalIsStageSum ==
  SleepAnswered =>
    LET res == Get(engine).result
        b == res.sleep_breakdown
    IN /\ res.total_sleep_minutes
            = b.deep_sleep_minutes + b.light_sleep_minutes + b.rem_sleep_minutes
       /\ res.total_sleep_minutes
            <= b.deep_sleep_minutes + b.light_sleep_minutes + b.rem_sleep_minutes
                 + b.awake_minutes

(***************************************************************************)
(* Specification SpecRank: highest / lowest queries of one patient.        *)
(* The glucose, blood_pressure and body_temperature tables hold the same   *)
(* selection of candidate readings.                                        *)
(***************************************************************************)
MaxRankRows == 3

RankDay == DateTime(2025, 7, 16, 0, 0, 0)

RankTimes == <<DateTime(2025, 7, 16, 8, 0, 0), DateTime(2025, 7, 16, 20, 0, 0)>>

RankValues == <<90, 120, 150>>

\* candidates: patient 1 at two times of the day with every value, patient 1 on
\* the next day with the least value, patient 2 on the day with the greatest
RankCandidates ==
  {[id |-> 10 * i + j, patient_id |-> 1, at |-> RankTimes[i], v |-> RankValues[j]] :
     i \in 1..Len(RankTimes), j \in 1..Len(RankValues)}
    \cup {[id |-> 1, patient_id |-> 1, at |-> DateTime(2025, 7, 17, 0, 0, 0), v |-> 5],
          [id |-> 2, patient_id |-> 2, at |-> RankTimes[1], v |-> 999]}

RankTable(reading_type, selection) ==
  {Row(reading_type, c.id, c.patient_id, c.at, c.v) : c \in selection}

RankStores ==
  {[users |-> UsersTable,
    tables |-> [EmptyTables EXCEPT
                  !["glucose"] = RankTable("glucose", selection),
                  !["blood_pressure"] = RankTable("blood_pressure", selection),
                  !["body_temperature"] = RankTable("body_temperature", selection)]] :
     selection \in UpTo(RankCandidates, MaxRankRows)}

RankTypes == {"glucose", "blood_pressure", "body_temperature"}

RankRequests ==
  [patient_id : {Some(1)}, patient_name : {None}, reading_type : RankTypes,
   specific_time : {None}, date_filter : {None, Some(RankDay)}, time_range : {None},
   analysis_type : {"highest", "lowest"}, limit : 1..MaxLimit, month_filter : {FALSE}]

RankToolRequests ==
  [patient_id : {Some(1)}, patient_name : {None}, reading_type : RankTypes,
   specific_time : {None}, date_filter : {Some(SubSeq(isoformat(RankDay), 1, 10))},
   time_range : {None}, analysis_type : {"highest", "lowest"}]

InitRank ==
  /\ store \in RankStores
  /\ call = NoCall
  /\ engine = None
  /\ result = Text("")
  /\ NoOtherObjects

RankQuery == GetSpecificReadingValue(RankRequests)

RankTool == SpecificMedicalValueToolRun({Doctor}, RankToolRequests)

NextRank == RankQuery \/ RankTool

SpecRank == InitRank /\ [][NextRank]_vars

\* the value field of a reading type, as the claims name it
ValueFieldOf(reading_type) ==
  IF reading_type = "blood_pressure" THEN "systolic"
  ELSE IF reading_type = "body_temperature" THEN "temperature"
  ELSE "value"

\* the engine answered a highest / lowest query on a type that has its value field
RankAnswered ==
  /\ call.op \in {"get_specific_reading_value", "SpecificMedicalValueTool._run"}
  /\ ~IsNone(engine)
  /\ Get(engine).kwargs.analysis_type \in {"highest", "lowest"}
  /\ Get(engine).kwargs.reading_type \in ReadingTypes \ {"sleep", "activity"}
  /\ ~IsError(Get(engine).result)

\* the rows of the patient and type in the requested window (a day, or all history)
RankWindow ==
  LET k == Get(engine).kwargs
  IN {r \in store.tables[k.reading_type] :
        /\ r.patient_id = Get(engine).result.patient_id
        /\ IsNone(k.date_filter)
             \/ (Secs(r.timestamp) >= Secs(Get(k.date_filter))
                   /\ Secs(r.timestamp) < Secs(Get(k.date_filter)) + 86400)}

\* a <= b for lowest, a >= b for highest
RankedBefore(analysis_type, a, b) == IF analysis_type = "highest" THEN a >= b ELSE a <= b

\* v is the maximum (highest) or minimum (lowest) of the value field over S
IsExtreme(analysis_type, field, S, v) ==
  /\ \E r \in S : Get(r[field]) = v
  /\ \A r \in S : RankedBefore(analysis_type, v, Get(r[field]))

\* C4: a non-sleep highest (lowest) query over the n rows of a patient, type
\* and window returns min(limit, n) readings, each a distinct row of the window,
\* in non-increasing (non-decreasing) order of the type's value field; every
\* omitted row's value is <= (>=) every returned one; and the highest_value
\* (lowest_value) the tool reports is the maximum (minimum) over all n rows.
\* Stated for the reading types whose table has the value field.
C4_RankedExtremes ==
  RankAnswered =>
    LET k == Get(engine).kwargs
        field == ValueFieldOf(k.reading_type)
        L == Get(engine).result.readings
        W == RankWindow
        IsRow(d, r) == d.timestamp = Some(isoformat(r.timestamp)) /\ d[field] = Get(r[field])
        returned == {r \in W : \E i \in 1..Len(L) : IsRow(L[i], r)}
    IN /\ Len(L) = Min2(k.limit, Cardinality(W))
       /\ Cardinality(returned) = Len(L)
       /\ \A i \in 1..Len(L) : \E r \in W : IsRow(L[i], r)
       /\ \A i \in 1..Len(L), j \in 1..Len(L) :
            i < j => RankedBefore(k.analysis_type, L[i][field], L[j][field])
       /\ \A r \in W \ returned : \A i \in 1..Len(L) :
            RankedBefore(k.analysis_type, L[i][field], Get(r[field]))
       /\ (call.op = "SpecificMedicalValueTool._run" /\ W # {}) =>
            IF k.analysis_type = "highest"
            THEN /\ "highest_value" \in DOMAIN result
                 /\ ~IsNone(result.highest_value)
                 /\ IsExtreme("highest", field, W, Get(result.highest_value))
            ELSE /\ "lowest_value" \in DOMAIN result
                 /\ ~IsNone(result.lowest_value)
                 /\ IsExtreme("lowest", field, W, Get(result.lowest_value))

\* a highest query was cut by its limit: rows of at least two different values
\* in the window, more rows than the limit, a row left out
C4_Witness ==
  /\ RankAnswered
  /\ call.op = "get_specific_reading_value"
  /\ Get(engine).kwargs.analysis_type = "highest"
  /\ Cardinality(RankWindow) > Get(engine).kwargs.limit
  /\ Len(result.readings) = Get(engine).kwargs.limit
  /\ \E r, q \in RankWindow :
       r[ValueFieldOf(Get(engine).kwargs.reading_type)]
         # q[ValueFieldOf(Get(engine).kwargs.reading_type)]

(***************************************************************************)
(* Specification SpecGate: the tool called under patient and staff user    *)
(* contexts with requests that name the caller, another patient or nobody. *)
(***************************************************************************)
MaxGateRows == 3

GateTimes == <<DateTime(2025, 7, 16, 8, 0, 0), DateTime(2025, 7, 16, 20, 0, 0)>>

\* every candidate has its own value, so a reading tells whose row it came from
GateCandidates ==
  {[id |-> 10 * p + i, patient_id |-> p, at |-> GateTimes[i], v |-> 100 * p + 10 * i] :
     p \in PatientIds, i \in 1..Len(GateTimes)}

GateStores ==
  {[users |-> UsersTable,
    tables |-> [EmptyTables EXCEPT
                  !["glucose"] = RankTable("glucose", selection),
                  !["sleep"] = {SleepRow(c.id, c.patient_id, c.at, Some(c.v), Some(1)) :
                                  c \in selection}]] :
     selection \in UpTo(GateCandidates, MaxGateRows)}

GateContexts ==
  {None, Doctor} \cup {Some([role_id |-> 1, user_id |-> u]) : u \in {None, Some(1), Some(2)}}

GateIds == {None, Some(1), Some(2)}

GateNames == {None, Some(<<"A", "n", "n">>), Some(<<"B", "o">>)}

GateToolRequests ==
  [patient_id : GateIds, patient_name : GateNames, reading_type : {"glucose", "sleep"},
   specific_time : {None}, date_filter : {None}, time_range : {None},
   analysis_type : {"latest"}]

InitGate ==
  /\ store \in GateStores
  /\ call = NoCall
  /\ engine = None
  /\ result = Text("")
  /\ NoOtherObjects

GateTool == SpecificMedicalValueToolRun(GateContexts, GateToolRequests)

NextGate == GateTool

SpecGate == InitGate /\ [][NextGate]_vars

\* the tool ran under a patient-role user context
PatientCall ==
  /\ call.op = "SpecificMedicalValueTool._run"
  /\ IsPatientRole(call.user_context)

\* the rows of reading_type that belong to the caller
OwnRows(reading_type) ==
  {r \in store.tables[reading_type] : Some(r.patient_id) = Get(call.user_context).user_id}

\* C5: under a patient-role user context (role_id = 1) the tool calls the
\* engine with patient_id = the caller's own user id and patient_name = None,
\* whatever reference was requested; requests that differ only in the requested
\* patient_id / patient_name have the same outcomes (engine call and returned
\* string); and every returned reading is a row of the caller.
C5_PatientSeesOnlyOwnData ==
  PatientCall =>
    /\ ~IsNone(engine)
    /\ Get(engine).kwargs.patient_id = Get(call.user_context).user_id
    /\ IsNone(Get(engine).kwargs.patient_name)
    /\ \A id \in GateIds, name \in GateNames :
         SpecificMedicalValueTool_run(store, call.connected, call.user_context,
                                      [call.args EXCEPT !.patient_id = id, !.patient_name = name])
           = SpecificMedicalValueTool_run(store, call.connected, call.user_context, call.args)
    /\ ~IsError(Get(engine).result) =>
         /\ Some(Get(engine).result.patient_id) = Get(call.user_context).user_id
         /\ IF call.args.reading_type = "sleep"
            THEN /\ result.total_sleep_records = Cardinality(OwnRows("sleep"))
                 /\ Get(engine).result.total_sleep_minutes
                      = SetSum(OwnRows("sleep"), [r \in OwnRows("sleep") |-> Get(r.value)])
            ELSE \A i \in 1..Len(Get(engine).result.readings) :
                   \E r \in OwnRows(call.args.reading_type) :
                     /\ Get(engine).result.readings[i].timestamp = Some(isoformat(r.timestamp))
                     /\ Get(engine).result.readings[i].value = Get(r.value)

\* patient 1 asked for the readings of patient 2, by id and by name, while both
\* have rows: the reading reported is one of patient 1
C5_Witness ==
  /\ PatientCall
  /\ Get(call.user_context).user_id = Some(1)
  /\ call.args.patient_id = Some(2)
  /\ call.args.patient_name = Some(<<"B", "o">>)
  /\ call.args.reading_type = "glucose"
  /\ \E r \in store.tables["glucose"] : r.patient_id = 2
  /\ "latest_reading" \in DOMAIN result
  /\ \E r \in OwnRows("glucose") : result.latest_reading.value = Get(r.value)

(***************************************************************************)
(* Specification SpecGroup: cross-patient high / low queries.  The six     *)
(* tables with a threshold hold the same selection of readings, each with  *)
(* its value placed relative to the thresholds of its own type.            *)
(***************************************************************************)
MaxFreeRows == 2

MaxBulk == 6

GroupDay == DateTime(2025, 7, 16, 0, 0, 0)

ThresholdTypes == {"glucose", "blood_pressure", "body_temperature", "hrv", "spo2", "stress"}

\* where a value lies: just under the low threshold, on it, on the high
\* threshold, just over it, well over it
Positions == <<"under_low", "low", "high", "over_high">>

ValueAt(reading_type, position, offset) ==
  CASE position = "under_low" -> thresholds[reading_type]["low"] - 1 - offset
    [] position = "low" -> thresholds[reading_type]["low"]
    [] position = "high" -> thresholds[reading_type]["high"]
    [] position = "over_high" -> thresholds[reading_type]["high"] + 1 + offset

\* patient 1 at 09:00 and patient 2 at 10:00 with a value at every position,
\* patient 2 well over the high threshold, patient 1 over it on the next day
FreeCandidates ==
  {[id |-> 10 * p + i, patient_id |-> p, at |-> DateTime(2025, 7, 16, 8 + p, 0, 0),
    position |-> Positions[i], offset |-> 0] : p \in PatientIds, i \in 1..Len(Positions)}
    \cup {[id |-> 1, patient_id |-> 2, at |-> DateTime(2025, 7, 16, 10, 0, 0),
           position |-> "over_high", offset |-> 8],
          [id |-> 2, patient_id |-> 1, at |-> DateTime(2025, 7, 17, 0, 0, 0),
           position |-> "over_high", offset |-> 0]}

\* MaxBulk readings of patient 1 from 11:00 on, one an hour, all beyond the
\* threshold at position; the oldest is the furthest from the threshold
BulkCandidates(position) ==
  {[id |-> 100 + j, patient_id |-> 1, at |-> DateTime(2025, 7, 16, 10 + j, 0, 0),
    position |-> position, offset |-> 20 + MaxBulk - j] : j \in 1..MaxBulk}

GroupTable(reading_type, selection) ==
  {Row(reading_type, c.id, c.patient_id, c.at, ValueAt(reading_type, c.position, c.offset)) :
     c \in selection}

\* up to MaxFreeRows of the free candidates, or the bulk of patient 1 on one
\* side with at most one free candidate
GroupSelections ==
  UpTo(FreeCandidates, MaxFreeRows)
    \cup {free \cup BulkCandidates(position) :
            free \in UpTo(FreeCandidates, 1), position \in {"over_high", "under_low"}}

GroupStores ==
  {[users |-> UsersTable,
    tables |-> [t \in ReadingTypes |->
                  IF t \in ThresholdTypes THEN GroupTable(t, selection) ELSE {}]] :
     selection \in GroupSelections}

GroupRequests ==
  [reading_type : ThresholdTypes, date_filter : {None, Some(GroupDay)},
   find_type : {"high", "low"}, all_patients : {TRUE}]

GroupToolRequests ==
  [reading_type : {"glucose", "body_temperature"}, date_filter : {Some(SubSeq(isoformat(GroupDay), 1, 10))},
   analysis_type : {"high", "low"}]

InitGroup ==
  /\ store \in GroupStores
  /\ call = NoCall
  /\ engine = None
  /\ result = Text("")
  /\ NoOtherObjects

GroupQuery == GetHighLowReadings(GroupRequests)

GroupTool == MultiPatientAnalysisToolRun(GroupToolRequests)

NextGroup == GroupQuery \/ GroupTool

SpecGroup == InitGroup /\ [][NextGroup]_vars

\* the engine answered a cross-patient query with groups
GroupAnswered ==
  /\ call.op \in {"get_high_low_readings", "MultiPatientAnalysisTool._run"}
  /\ ~IsNone(engine)
  /\ ~IsError(Get(engine).result)

\* the threshold the claims state for a reading type and mode
StatedThreshold(reading_type, find_type) ==
  CASE reading_type = "glucose" -> IF find_type = "high" THEN 180 ELSE 70
    [] reading_type = "blood_pressure" -> IF find_type = "high" THEN 140 ELSE 90
    [] reading_type = "body_temperature" -> IF find_type = "high" THEN 1004 ELSE 960
    [] reading_type = "hrv" -> IF find_type = "high" THEN 50 ELSE 20
    [] reading_type = "spo2" -> IF find_type = "high" THEN 100 ELSE 90
    [] reading_type = "stress" -> IF find_type = "high" THEN 80 ELSE 20

\* the rows of the queried type in the queried window (a day, or all history)
GroupWindow ==
  LET k == Get(engine).kwargs
  IN {r \in store.tables[k.reading_type] :
        IsNone(k.date_filter)
          \/ (Secs(r.timestamp) >= Secs(Get(k.date_filter))
                /\ Secs(r.timestamp) < Secs(Get(k.date_filter)) + 86400)}

\* the value field of a row of the queried type
GroupValue(r) == Get(r[ValueFieldOf(Get(engine).kwargs.reading_type)])

\* the rows of the window strictly beyond the stated threshold
QualifyingRows ==
  LET k == Get(engine).kwargs
  IN {r \in GroupWindow :
        IF k.find_type = "high"
        THEN GroupValue(r) > StatedThreshold(k.reading_type, "high")
        ELSE GroupValue(r) < StatedThreshold(k.reading_type, "low")}

QualifyingRowsOf(patient_id) == {r \in QualifyingRows : r.patient_id = patient_id}

Groups == Get(engine).result.distinct_patients

\* C6: in a cross-patient query with find_type high (low) every reading of
\* every returned group, and both extremes of the group, are strictly greater
\* (less) than the fixed threshold of the reading type; a row whose value
\* equals the threshold is in no group; the reported threshold is the table
\* entry (body_temperature in tenths of a degree).
C6_StrictlyBeyondThreshold ==
  GroupAnswered =>
    LET k == Get(engine).kwargs
        t == StatedThreshold(k.reading_type, k.find_type)
        Beyond(v) == IF k.find_type = "high" THEN v > t ELSE v < t
    IN /\ Get(engine).result.threshold = t
       /\ \A i \in 1..Len(Groups) :
            /\ Beyond(Groups[i].highest_value)
            /\ Beyond(Groups[i].lowest_value)
            /\ \A j \in 1..Len(Groups[i].readings) : Beyond(Groups[i].readings[j].value)
       /\ \A r \in GroupWindow :
            GroupValue(r) = t =>
              \A i \in 1..Len(Groups) :
                Groups[i].patient_id = r.patient_id =>
                  /\ Groups[i].total_readings = Cardinality(QualifyingRowsOf(r.patient_id))
                  /\ \A j \in 1..Len(Groups[i].readings) : Groups[i].readings[j].value # t

\* a patient has a row on the threshold and a row beyond it in the window: the
\* patient's group holds the second row only
C6_Witness ==
  /\ GroupAnswered
  /\ \E r \in GroupWindow :
       /\ GroupValue(r)
            = StatedThreshold(Get(engine).kwargs.reading_type, Get(engine).kwargs.find_type)
       /\ \E i \in 1..Len(Groups) :
            Groups[i].patient_id = r.patient_id /\ Groups[i].total_readings = 1

\* C7: every group's total_readings is the number of all qualifying rows of
\* its patient in the window, its readings list holds min(5, total_readings)
\* entries; the response's total_readings is the number of all qualifying rows
\* and total_patients the number of distinct patient ids among them.
C7_TotalsCountAllRows ==
  GroupAnswered =>
    /\ \A i \in 1..Len(Groups) :
         /\ Groups[i].total_readings = Cardinality(QualifyingRowsOf(Groups[i].patient_id))
         /\ Len(Groups[i].readings) = Min2(5, Groups[i].total_readings)
    /\ Get(engine).result.total_readings = Cardinality(QualifyingRows)
    /\ Get(engine).result.total_patients
         = Cardinality({r.patient_id : r \in QualifyingRows})

\* a patient with 7 qualifying rows: total_readings 7, 5 readings shown
C7_Witness ==
  /\ GroupAnswered
  /\ \E i \in 1..Len(Groups) :
       /\ Cardinality(QualifyingRowsOf(Groups[i].patient_id)) = 7
       /\ Groups[i].total_readings = 7
       /\ Len(Groups[i].readings) = 5

\* C8: every group's highest_value is the maximum and its lowest_value the
\* minimum of the value field over all qualifying rows of its patient, those
\* beyond the 5 displayed included, in whatever order the rows were added.
C8_ExtremesOverAllRows ==
  GroupAnswered =>
    \A i \in 1..Len(Groups) :
      LET own == QualifyingRowsOf(Groups[i].patient_id)
      IN /\ \E r \in own : GroupValue(r) = Groups[i].highest_value
         /\ \A r \in own : GroupValue(r) <= Groups[i].highest_value
         /\ \E r \in own : GroupValue(r) = Groups[i].lowest_value
         /\ \A r \in own : GroupValue(r) >= Groups[i].lowest_value

\* in high mode a group of more than 5 rows whose maximum is none of the 5
\* readings shown and not the first row added
C8_Witness ==
  /\ GroupAnswered
  /\ Get(engine).kwargs.find_type = "high"
  /\ \E i \in 1..Len(Groups) :
       /\ Groups[i].total_readings > 5
       /\ \A j \in 1..Len(Groups[i].readings) :
            Groups[i].readings[j].value < Groups[i].highest_value

\* C9: the groups come one per patient id, sorted by highest_value
\* non-increasing in high mode and by lowest_value non-decreasing in low mode.
C9_OneGroupPerPatientSorted ==
  GroupAnswered =>
    /\ \A i \in 1..Len(Groups), j \in 1..Len(Groups) :
         i # j => Groups[i].patient_id # Groups[j].patient_id
    /\ {Groups[i].patient_id : i \in 1..Len(Groups)} = {r.patient_id : r \in QualifyingRows}
    /\ \A i \in 1..Len(Groups), j \in 1..Len(Groups) :
         i < j =>
           IF Get(engine).kwargs.find_type = "high"
           THEN Groups[i].highest_value >= Groups[j].highest_value
           ELSE Groups[i].lowest_value <= Groups[j].lowest_value

\* two groups in high mode: the patient whose reading is the newest, and so
\* was added first, has the smaller maximum and comes second
C9_Witness ==
  /\ GroupAnswered
  /\ Get(engine).kwargs.find_type = "high"
  /\ Len(Groups) = 2
  /\ Groups[1].highest_value > Groups[2].highest_value
  /\ \E r \in QualifyingRowsOf(Groups[2].patient_id) :
       \A q \in QualifyingRowsOf(Groups[1].patient_id) : Secs(r.timestamp) > Secs(q.timestamp)

(***************************************************************************)
(* Specification SpecMonth: single-patient queries over a month window,    *)
(* with readings on both sides of the ends of February 2025 and 2024.      *)
(***************************************************************************)
MaxMonthRows == 3

MonthTimes ==
  <<DateTime(2024, 1, 31, 23, 59, 59), DateTime(2024, 2, 28, 12, 0, 0),
    DateTime(2024, 2, 29, 23, 59, 59), DateTime(2024, 3, 1, 0, 0, 0),
    DateTime(2025, 1, 31, 23, 59, 59), DateTime(2025, 2, 1, 0, 0, 0),
    DateTime(2025, 2, 28, 23, 59, 59), DateTime(2025, 3, 1, 0, 0, 0)>>

\* patient 1 at every instant, each reading with its own value; patient 2 once
\* inside February 2025
MonthCandidates ==
  {[id |-> i, patient_id |-> 1, at |-> MonthTimes[i], v |-> 100 + i] : i \in 1..Len(MonthTimes)}
    \cup {[id |-> 20, patient_id |-> 2, at |-> DateTime(2025, 2, 10, 9, 0, 0), v |-> 200]}

MonthStores ==
  {[users |-> UsersTable,
    tables |-> [EmptyTables EXCEPT
                  !["glucose"] = RankTable("glucose", selection),
                  !["sleep"] = {SleepRow(c.id, c.patient_id, c.at, Some(c.v), Some(1)) :
                                  c \in selection}]] :
     selection \in UpTo(MonthCandidates, MaxMonthRows)}

\* the service is called with any day of the month as date_filter
MonthRequests ==
  [patient_id : {Some(1)}, patient_name : {None}, reading_type : {"glucose", "sleep"},
   specific_time : {None},
   date_filter : {Some(DateTime(2025, 2, 1, 0, 0, 0)), Some(DateTime(2024, 2, 15, 0, 0, 0))},
   time_range : {None}, analysis_type : {"latest"}, limit : 1..MaxLimit, month_filter : {TRUE}]

MonthStrings == {<<"2", "0", "2", "5", "-", "0", "2">>, <<"2", "0", "2", "4", "-", "0", "2">>}

MonthToolRequests ==
  [patient_id : {Some(1)}, patient_name : {None}, reading_type : {"glucose", "sleep"},
   specific_time : {None}, date_filter : {Some(m) : m \in MonthStrings},
   time_range : {None}, analysis_type : {"latest"}]

InitMonth ==
  /\ store \in MonthStores
  /\ call = NoCall
  /\ engine = None
  /\ result = Text("")
  /\ NoOtherObjects

MonthQuery == GetSpecificReadingValue(MonthRequests)

MonthTool == SpecificMedicalValueToolRun({Doctor}, MonthToolRequests)

NextMonth == MonthQuery \/ MonthTool

SpecMonth == InitMonth /\ [][NextMonth]_vars

\* the engine answered a query whose only window is a month
MonthAnswered ==
  /\ call.op \in {"get_specific_reading_value", "SpecificMedicalValueTool._run"}
  /\ ~IsNone(engine)
  /\ Get(engine).kwargs.month_filter
  /\ ~IsNone(Get(engine).kwargs.date_filter)
  /\ IsNone(Get(engine).kwargs.specific_time)
  /\ IsNone(Get(engine).kwargs.time_range)
  /\ ~IsError(Get(engine).result)

\* the days of February as the claim states them
StatedLastDayOfFebruary(year) == IF year = 2024 THEN 29 ELSE 28

\* t lies in [first day of the month 00:00:00, last day 23:59:59], compared field by field
InStatedMonth(date_filter, t) ==
  /\ t.year = date_filter.year
  /\ t.month = date_filter.month
  /\ t.day >= 1
  /\ date_filter.month = 2 => t.day <= StatedLastDayOfFebruary(date_filter.year)

\* the rows of the patient and type inside the stated month window
MonthWindow ==
  LET k == Get(engine).kwargs
      field == IF k.reading_type = "sleep" THEN "date" ELSE "timestamp"
  IN {r \in store.tables[k.reading_type] :
        /\ r.patient_id = Get(engine).result.patient_id
        /\ InStatedMonth(Get(k.date_filter), r[field])}

\* C10: with a dateFilter of shape YYYY-MM the rows fetched are exactly the rows
\* of the patient and type whose timestamp lies in [first day of the month
\* 00:00:00, last day of the month 23:59:59], both ends included, the last day
\* being the 28th for 2025-02 and the 29th for 2024-02: the readings returned
\* are min(limit, n) of the n rows of that window, and a sleep summary covers
\* all n of them.
C10_MonthWindowClosed ==
  MonthAnswered =>
    LET k == Get(engine).kwargs
        res == Get(engine).result
        W == MonthWindow
    IN IF k.reading_type = "sleep"
       THEN /\ res.total_sleep_records = Cardinality(W)
            /\ res.total_sleep_minutes = SetSum(W, [r \in W |-> Get(r.value)])
       ELSE /\ Len(res.readings) = Min2(k.limit, Cardinality(W))
            /\ \A i \in 1..Len(res.readings) :
                 \E r \in W : /\ res.readings[i].timestamp = Some(isoformat(r.timestamp))
                              /\ res.readings[i].value = Get(r.value)
            /\ Cardinality({res.readings[i].timestamp : i \in 1..Len(res.readings)})
                 = Len(res.readings)

\* the tool was asked for 2024-02 while the patient has a reading at
\* 2024-02-29 23:59:59 and one at 2024-03-01 00:00:00: only the first is fetched
C10_Witness ==
  /\ MonthAnswered
  /\ call.op = "SpecificMedicalValueTool._run"
  /\ call.args.date_filter = Some(<<"2", "0", "2", "4", "-", "0", "2">>)
  /\ call.args.reading_type = "glucose"
  /\ \E r, q \in store.tables["glucose"] :
       /\ r.patient_id = 1 /\ r.timestamp = DateTime(2024, 2, 29, 23, 59, 59)
       /\ q.patient_id = 1 /\ q.timestamp = DateTime(2024, 3, 1, 0, 0, 0)
       /\ Len(Get(engine).result.readings) = 1
       /\ result.latest_reading.timestamp = Some(isoformat(r.timestamp))

(***************************************************************************)
(* The point window, under Spec                                            *)
(***************************************************************************)
\* the engine answered a query around PointTime on a type with timestamps
PointAnswered ==
  /\ call.op \in {"get_specific_reading_value", "SpecificMedicalValueTool._run"}
  /\ ~IsNone(engine)
  /\ Get(engine).kwargs.specific_time = Some(PointTime)
  /\ Get(engine).kwargs.reading_type \notin {"sleep", "activity"}
  /\ ~IsError(Get(engine).result)

\* t lies in [09:00:00, 11:00:00] on 2025-07-16
InStatedPointWindow(t) ==
  /\ t.year = 2025 /\ t.month = 7 /\ t.day = 16
  /\ 3600 * t.hour + 60 * t.minute + t.second >= 3600 * 9
  /\ 3600 * t.hour + 60 * t.minute + t.second <= 3600 * 11

StatedPointWindow ==
  {r \in store.tables[Get(engine).kwargs.reading_type] :
     r.patient_id = Get(engine).result.patient_id /\ InStatedPointWindow(r.timestamp)}

\* C11: with specific_time T = 2025-07-16T10:00:00 the rows fetched are rows
\* with T - 1h <= timestamp <= T + 1h, both ends included, i.e. rows in
\* [09:00:00, 11:00:00] of that day: the readings returned are distinct rows of
\* that window, as many as the window holds up to the number the query takes
\* (1 for analysis_type specific, limit otherwise).
C11_PointWindowClosed ==
  PointAnswered =>
    LET k == Get(engine).kwargs
        L == Get(engine).result.readings
        W == StatedPointWindow
        taken == IF k.analysis_type = "specific" THEN 1 ELSE k.limit
    IN /\ W = PointWindow(k.reading_type, Get(engine).result.patient_id, PointTime)
       /\ Len(L) = Min2(taken, Cardinality(W))
       /\ \A i \in 1..Len(L) :
            \E r \in W : /\ L[i].timestamp = Some(isoformat(r.timestamp))
                         /\ L[i].value = Get(r.value)
       /\ Cardinality({L[i].timestamp : i \in 1..Len(L)}) = Len(L)

\* the patient has rows at 08:59:59, 09:00:00 and 11:00:00 and two readings were
\* asked for: the rows on the two ends of the window are returned
C11_Witness ==
  /\ PointAnswered
  /\ \E r \in store.tables["glucose"] :
       r.patient_id = 1 /\ r.timestamp = DateTime(2025, 7, 16, 8, 59, 59)
  /\ Len(Get(engine).result.readings) = 2
  /\ Get(engine).result.readings[1].timestamp = Some(isoformat(DateTime(2025, 7, 16, 11, 0, 0)))
  /\ Get(engine).result.readings[2].timestamp = Some(isoformat(DateTime(2025, 7, 16, 9, 0, 0)))

(***************************************************************************)
(* Specification SpecDay: single-patient and cross-patient queries over    *)
(* the day 2025-07-16, with readings on both sides of its two midnights.   *)
(***************************************************************************)
MaxDayRows == 3

TheDay == DateTime(2025, 7, 16, 0, 0, 0)

DayTimes ==
  <<DateTime(2025, 7, 15, 23, 59, 59), DateTime(2025, 7, 16, 0, 0, 0),
    DateTime(2025, 7, 16, 23, 59, 59), DateTime(2025, 7, 17, 0, 0, 0)>>

\* patient 1 at every instant and patient 2 at noon, all above the high
\* glucose threshold, each reading with its own value
DayCandidates ==
  {[id |-> i, patient_id |-> 1, at |-> DayTimes[i], v |-> 200 + i] : i \in 1..Len(DayTimes)}
    \cup {[id |-> 20, patient_id |-> 2, at |-> DateTime(2025, 7, 16, 12, 0, 0), v |-> 250]}

DayStores ==
  {[users |-> UsersTable,
    tables |-> [EmptyTables EXCEPT
                  !["glucose"] = RankTable("glucose", selection),
                  !["sleep"] = {SleepRow(c.id, c.patient_id, c.at, Some(c.v), Some(1)) :
                                  c \in selection}]] :
     selection \in UpTo(DayCandidates, MaxDayRows)}

DayRequests ==
  [patient_id : {Some(1)}, patient_name : {None}, reading_type : {"glucose", "sleep"},
   specific_time : {None}, date_filter : {Some(TheDay)}, time_range : {None},
   analysis_type : {"latest"}, limit : 1..MaxLimit, month_filter : {FALSE}]

DayToolRequests ==
  [patient_id : {Some(1)}, patient_name : {None}, reading_type : {"glucose", "sleep"},
   specific_time : {None}, date_filter : {Some(SubSeq(isoformat(TheDay), 1, 10))},
   time_range : {None}, analysis_type : {"latest"}]

DayGroupRequests ==
  [reading_type : {"glucose"}, date_filter : {Some(TheDay)},
   find_type : {"high", "low"}, all_patients : {TRUE}]

DayGroupToolRequests ==
  [reading_type : {"glucose"}, date_filter : {Some(SubSeq(isoformat(TheDay), 1, 10))},
   analysis_type : {"high"}]

InitDay ==
  /\ store \in DayStores
  /\ call = NoCall
  /\ engine = None
  /\ result = Text("")
  /\ NoOtherObjects

DayQuery == GetSpecificReadingValue(DayRequests)

DayTool == SpecificMedicalValueToolRun({Doctor}, DayToolRequests)

DayGroupQuery == GetHighLowReadings(DayGroupRequests)

DayGroupTool == MultiPatientAnalysisToolRun(DayGroupToolRequests)

NextDayQuery == DayQuery \/ DayTool \/ DayGroupQuery \/ DayGroupTool

SpecDay == InitDay /\ [][NextDayQuery]_vars

\* the engine answered a query whose window is the day TheDay
DayAnswered ==
  /\ ~IsNone(engine)
  /\ Get(engine).kwargs.date_filter = Some(TheDay)
  /\ ~IsError(Get(engine).result)

SinglePatientCall ==
  call.op \in {"get_specific_reading_value", "SpecificMedicalValueTool._run"}

\* midnight(TheDay) <= t < midnight(TheDay) + 1 day, compared field by field
InStatedDay(t) == t.year = 2025 /\ t.month = 7 /\ t.day = 16

\* the rows of the queried type on the day
DayWindow ==
  LET k == Get(engine).kwargs
      field == IF k.reading_type = "sleep" THEN "date" ELSE "timestamp"
  IN {r \in store.tables[k.reading_type] : InStatedDay(r[field])}

\* C12: with a day date_filter d the rows fetched, in the single-patient and
\* in the cross-patient query, are the rows with midnight(d) <= timestamp <
\* midnight(d) + 1 day: a row at 00:00:00 of d is in, a row at 00:00:00 of the
\* following day is out.
C12_DayWindowHalfOpen ==
  DayAnswered =>
    LET k == Get(engine).kwargs
        res == Get(engine).result
    IN IF SinglePatientCall
       THEN LET W == {r \in DayWindow : r.patient_id = res.patient_id}
            IN IF k.reading_type = "sleep"
               THEN /\ res.total_sleep_records = Cardinality(W)
                    /\ res.total_sleep_minutes = SetSum(W, [r \in W |-> Get(r.value)])
               ELSE /\ Len(res.readings) = Min2(k.limit, Cardinality(W))
                    /\ \A i \in 1..Len(res.readings) :
                         \E r \in W : /\ res.readings[i].timestamp = Some(isoformat(r.timestamp))
                                      /\ res.readings[i].value = Get(r.value)
                    /\ Cardinality({res.readings[i].timestamp : i \in 1..Len(res.readings)})
                         = Len(res.readings)
       ELSE LET W == {r \in DayWindow :
                        IF k.find_type = "high" THEN Get(r.value) > 180 ELSE Get(r.value) < 70}
            IN /\ res.total_readings = Cardinality(W)
               /\ \A i \in 1..Len(res.distinct_patients) :
                    LET g == res.distinct_patients[i]
                    IN /\ g.total_readings = Cardinality({r \in W : r.patient_id = g.patient_id})
                       /\ \A j \in 1..Len(g.readings) :
                            \E r \in W : /\ r.patient_id = g.patient_id
                                         /\ g.readings[j].timestamp = Some(isoformat(r.timestamp))
                                         /\ g.readings[j].value = Get(r.value)

\* the patient has a row at 00:00:00 of the day and one at 00:00:00 of the
\* following day: a cross-patient query counts the first only
C12_Witness ==
  /\ DayAnswered
  /\ call.op = "get_high_low_readings"
  /\ Get(engine).kwargs.find_type = "high"
  /\ \E r, q \in store.tables["glucose"] :
       /\ r.timestamp = DateTime(2025, 7, 16, 0, 0, 0)
       /\ q.timestamp = DateTime(2025, 7, 17, 0, 0, 0)
  /\ result.total_readings = 1
  /\ result.distinct_patients[1].readings[1].timestamp
       = Some(isoformat(DateTime(2025, 7, 16, 0, 0, 0)))

(***************************************************************************)
(* Specification SpecArgs: requests with supported, unsupported and        *)
(* unknown reading types, known and unknown patients, parseable and        *)
(* unparseable dates, against stores that hold few rows or none.           *)
(***************************************************************************)
MaxArgRows == 2

ArgDay == DateTime(2025, 7, 16, 0, 0, 0)

\* a glucose reading of value 0 and one over the high threshold for patient 1,
\* one over it for patient 2, a night of sleep and a day of activity for patient 1
ArgStores ==
  {[users |-> UsersTable,
    tables |-> [EmptyTables EXCEPT
                  !["glucose"] = glucose, !["sleep"] = sleep, !["activity"] = activity]] :
     glucose \in UpTo({Row("glucose", 1, 1, DateTime(2025, 7, 16, 9, 0, 0), 0),
                       Row("glucose", 2, 1, DateTime(2025, 7, 16, 10, 0, 0), 200),
                       Row("glucose", 3, 2, DateTime(2025, 7, 16, 11, 0, 0), 200)}, MaxArgRows),
     sleep \in {{}, {SleepRow(4, 1, ArgDay, Some(45), Some(1))}},
     activity \in {{}, {Row("activity", 5, 1, ArgDay, 4000)}}}

\* "weight" stands for every reading type outside the model map
ArgTypes == {"glucose", "sleep", "activity", "weight"}

\* "Ann" is the first name of patient 1, nobody is called "Zed"
ArgNames == {None, Some(<<"A", "n", "n">>), Some(<<"Z", "e", "d">>)}

ArgRequests ==
  [patient_id : {None, Some(1), Some(9)}, patient_name : ArgNames, reading_type : ArgTypes,
   specific_time : {None}, date_filter : {None}, time_range : {None},
   analysis_type : {"latest"}, limit : {MaxLimit}, month_filter : {FALSE}]

\* "2025-07-16" parses, "16/07/2025" and "10am" do not
ArgDateStrings ==
  {SubSeq(isoformat(ArgDay), 1, 10), <<"1", "6", "/", "0", "7", "/", "2", "0", "2", "5">>}

ArgToolRequests ==
  [patient_id : {None, Some(1)}, patient_name : {None, Some(<<"A", "n", "n">>)},
   reading_type : {"glucose", "weight"},
   specific_time : {None, Some(<<"1", "0", "a", "m">>)},
   date_filter : {None} \cup {Some(d) : d \in ArgDateStrings},
   time_range : {None}, analysis_type : {"latest"}]

ArgGroupRequests ==
  [reading_type : ArgTypes \cup {"spo2"}, date_filter : {None, Some(ArgDay)},
   find_type : {"high", "low"}, all_patients : {TRUE}]

ArgGroupToolRequests ==
  [reading_type : ArgTypes, date_filter : {None} \cup {Some(d) : d \in ArgDateStrings},
   analysis_type : {"high"}]

InitArgs ==
  /\ store \in ArgStores
  /\ call = NoCall
  /\ engine = None
  /\ result = Text("")
  /\ NoOtherObjects

ArgQuery == GetSpecificReadingValue(ArgRequests)

ArgTool == SpecificMedicalValueToolRun({Doctor}, ArgToolRequests)

ArgGroupQuery == GetHighLowReadings(ArgGroupRequests)

ArgGroupTool == MultiPatientAnalysisToolRun(ArgGroupToolRequests)

NextArgs == ArgQuery \/ ArgTool \/ ArgGroupQuery \/ ArgGroupTool

SpecArgs == InitArgs /\ [][NextArgs]_vars

ToolCall == call.op \in {"SpecificMedicalValueTool._run", "MultiPatientAnalysisTool._run"}

CrossPatientCall == call.op \in {"get_high_low_readings", "MultiPatientAnalysisTool._run"}

\* the request names a reading type outside the eight supported ones
UnsupportedTypeRequested == call.op # "none" /\ call.args.reading_type \notin ReadingTypes

\* the request carries a date or time string that no accepted format parses
UnparseableRequested ==
  \/ /\ call.op = "SpecificMedicalValueTool._run"
     /\ \/ Truthy(call.args.specific_time)
             /\ IsNone(ParseSpecificTime(Get(call.args.specific_time)))
        \/ Truthy(call.args.date_filter)
             /\ IsNone(ParseDateFilter(Get(call.args.date_filter)))
  \/ /\ call.op = "MultiPatientAnalysisTool._run"
     /\ Truthy(call.args.date_filter)
     /\ IsNone(ParseDay(Get(call.args.date_filter)))

\* the request ended in an error (payload of the service, error string of the tool)
Rejected ==
  \/ "error" \in DOMAIN result
  \/ /\ "text" \in DOMAIN result
     /\ result.text \in {"Error: Invalid specific_time format",
                         "Error: Invalid date_filter format",
                         "Error: Invalid date format"}

\* the queries the request issued to the store
QueriesIssued == IF IsNone(engine) THEN <<>> ELSE Get(engine).queries

\* C13: a request with an unsupported reading type or an unparseable date or
\* time is rejected with an error and has issued no query to the store, neither
\* a patient lookup nor a reading fetch.
C13_ValidationBeforeStoreAccess ==
  (UnsupportedTypeRequested \/ UnparseableRequested) =>
    /\ Rejected
    /\ QueriesIssued = <<>>

\* the request reached the service, and its patient reference, if it takes one,
\* is the id of a stored patient
Served ==
  /\ call.op # "none"
  /\ ~IsNone(engine)
  /\ ToolCall => call.connected
  /\ ~CrossPatientCall => call.args.patient_id = Some(1)

\* C14: a query, single-patient or cross-patient, whose reading type is not one
\* of the eight supported types returns an error payload whose message names
\* the allowed reading types.
C14_InvalidTypeNamesAllowedSet ==
  (UnsupportedTypeRequested /\ Served) =>
    /\ IsError(Get(engine).result)
    /\ "available_types" \in DOMAIN Get(engine).result
    /\ {Get(engine).result.available_types[i] :
          i \in 1..Len(Get(engine).result.available_types)} = ReadingTypes

\* a single-patient sleep query by patient id reached the service and no sleep
\* row of that patient is in the store
SleepQueryWithoutRows ==
  /\ call.op = "get_specific_reading_value"
  /\ call.args.reading_type = "sleep"
  /\ ~IsNone(call.args.patient_id)
  /\ \A r \in store.tables["sleep"] : Some(r.patient_id) # call.args.patient_id

\* C15: a sleep query that matches zero rows is not an error: it returns
\* total_sleep_minutes = 0 and a summary that states that no sleep data is
\* available.
C15_EmptySleepSaysNoData ==
  SleepQueryWithoutRows =>
    /\ ~IsError(result)
    /\ result.total_sleep_records = 0
    /\ result.total_sleep_minutes = 0
    /\ result.summary.text = "No sleep data available"

(***************************************************************************)
(* Specification SpecDuration: sleep queries of one patient whose asleep   *)
(* minutes add up to totals on both sides of the full hours.               *)
(***************************************************************************)
MaxDurationRows == 2

DurationValues == <<1, 29, 60, 61, 389>>

\* one candidate row of light sleep per value, and a quarter of an hour awake
DurationRows ==
  {SleepRow(i, 1, SleepDay, Some(DurationValues[i]), Some(1)) : i \in 1..Len(DurationValues)}
    \cup {SleepRow(10, 1, SleepDay, Some(15), Some(3))}

DurationStores ==
  {[users |-> UsersTable, tables |-> [EmptyTables EXCEPT !["sleep"] = rows]] :
     rows \in UpTo(DurationRows, MaxDurationRows)}

DurationRequests ==
  [patient_id : {Some(1)}, patient_name : {None}, reading_type : {"sleep"},
   specific_time : {None}, date_filter : {None, Some(SleepDay)}, time_range : {None},
   analysis_type : {"specific", "latest"}, limit : {MaxLimit}, month_filter : {FALSE}]

DurationToolRequests ==
  [patient_id : {Some(1)}, patient_name : {None}, reading_type : {"sleep"},
   specific_time : {None}, date_filter : {Some(SubSeq(isoformat(SleepDay), 1, 10))},
   time_range : {None}, analysis_type : {"specific"}]

InitDuration ==
  /\ store \in DurationStores
  /\ call = NoCall
  /\ engine = None
  /\ result = Text("")
  /\ NoOtherObjects

DurationQuery == GetSpecificReadingValue(DurationRequests)

DurationTool == SpecificMedicalValueToolRun({Doctor}, DurationToolRequests)

NextDuration == DurationQuery \/ DurationTool

SpecDuration == InitDuration /\ [][NextDuration]_vars

\* C16: for every total T of asleep minutes total_sleep_duration is
\* 'H hours and M minutes' with H = floor(T / 60) and M = T mod 60 when M > 0,
\* and 'H hours' when M = 0.
C16_DurationIsQuotientAndRemainder ==
  (SleepAnswered /\ ~IsError(Get(engine).result)) =>
    LET T == Get(engine).result.total_sleep_minutes
    IN /\ result.total_sleep_duration.hours = T \div 60
       /\ result.total_sleep_duration.and_minutes
            = IF T % 60 > 0 THEN Some(T % 60) ELSE None

(***************************************************************************)
(* Specification SpecRange: single-patient queries that carry a time_range,*)
(* over a day, a month, a point window or no window, with readings on both *)
(* sides of 06:00, 12:00, 18:00 and 23:59 of the day 2025-03-10.           *)
(***************************************************************************)
MaxRangeRows == 2

RangeDay == DateTime(2025, 3, 10, 0, 0, 0)

RangePoint == DateTime(2025, 3, 10, 12, 30, 0)

RangeTimes ==
  <<DateTime(2025, 3, 10, 5, 59, 59), DateTime(2025, 3, 10, 6, 0, 0),
    DateTime(2025, 3, 10, 12, 0, 0), DateTime(2025, 3, 10, 12, 0, 1),
    DateTime(2025, 3, 10, 17, 59, 59), DateTime(2025, 3, 10, 18, 0, 0),
    DateTime(2025, 3, 10, 23, 59, 0), DateTime(2025, 3, 10, 23, 59, 1),
    DateTime(2025, 3, 11, 14, 0, 0), DateTime(2025, 4, 2, 20, 0, 0)>>

\* patient 1 at every instant, each reading with its own value
RangeCandidates ==
  {[id |-> i, patient_id |-> 1, at |-> RangeTimes[i], v |-> 100 + i] : i \in 1..Len(RangeTimes)}

RangeStores ==
  {[users |-> UsersTable,
    tables |-> [EmptyTables EXCEPT
                  !["glucose"] = RankTable("glucose", selection),
                  !["sleep"] = {SleepRow(c.id, c.patient_id, c.at, Some(c.v), Some(1)) :
                                  c \in selection}]] :
     selection \in UpTo(RangeCandidates, MaxRangeRows)}

RangeWords ==
  {<<"m", "o", "r", "n", "i", "n", "g">>, <<"A", "M">>, <<"n", "i", "g", "h", "t">>,
   <<"E", "v", "e", "n", "i", "n", "g">>, <<"p", "m">>,
   <<"a", "f", "t", "e", "r", "n", "o", "o", "n">>}

\* the window arguments: none, the day, the month, the point
RangeWindows ==
  {[specific_time |-> None, date_filter |-> None, month_filter |-> FALSE],
   [specific_time |-> None, date_filter |-> Some(RangeDay), month_filter |-> FALSE],
   [specific_time |-> None, date_filter |-> Some(RangeDay), month_filter |-> TRUE],
   [specific_time |-> Some(RangePoint), date_filter |-> None, month_filter |-> FALSE]}

RangeRequests ==
  {w @@ [patient_id |-> Some(1), patient_name |-> None, reading_type |-> t,
         time_range |-> tr, analysis_type |-> "latest", limit |-> 10] :
     w \in RangeWindows, t \in {"glucose", "sleep"},
     tr \in {None} \cup {Some(x) : x \in RangeWords}}

RangeToolRequests ==
  [patient_id : {Some(1)}, patient_name : {None}, reading_type : {"glucose"},
   specific_time : {None},
   date_filter : {Some(SubSeq(isoformat(RangeDay), 1, 10)), Some(SubSeq(isoformat(RangeDay), 1, 7))},
   time_range : {Some(<<"M", "o", "r", "n", "i", "n", "g">>), Some(<<"p", "m">>)},
   analysis_type : {"latest"}]

InitRange ==
  /\ store \in RangeStores
  /\ call = NoCall
  /\ engine = None
  /\ result = Text("")
  /\ NoOtherObjects

RangeQuery == GetSpecificReadingValue(RangeRequests)

RangeTool == SpecificMedicalValueToolRun({Doctor}, RangeToolRequests)

NextRange == RangeQuery \/ RangeTool

SpecRange == InitRange /\ [][NextRange]_vars

\* the engine answered a single-patient query that carries a time_range
RangeAnswered ==
  /\ ~IsNone(engine)
  /\ ~IsNone(Get(engine).kwargs.time_range)
  /\ ~IsError(Get(engine).result)

\* what the engine returns for the same query without its time_range
WithoutTimeRange ==
  get_specific_reading_value(store, [Get(engine).kwargs EXCEPT !.time_range = None])

\* the rows a result reports: the readings of a standard type, the
\* aggregates of sleep
RowsReported(res) ==
  IF "readings" \in DOMAIN res THEN <<res.readings>>
  ELSE <<res.total_sleep_records, res.total_sleep_minutes>>

\* C17: with a month date_filter, with a specific_time, or with no
\* date_filter at all, a query with time_range morning or night reports the
\* same rows as the same query without time_range.
C17_TimeRangeOnlyNarrowsDays ==
  (/\ RangeAnswered
   /\ lower(Get(Get(engine).kwargs.time_range)) \in
        {<<"m", "o", "r", "n", "i", "n", "g">>, <<"n", "i", "g", "h", "t">>}
   /\ \/ Get(engine).kwargs.month_filter
      \/ ~IsNone(Get(engine).kwargs.specific_time)
      \/ IsNone(Get(engine).kwargs.date_filter))
    => \E other \in WithoutTimeRange :
         RowsReported(other) = RowsReported(Get(engine).result)

\* the engine answered a query over the day RangeDay that carries a time_range
RangeDayAnswered ==
  /\ RangeAnswered
  /\ IsNone(Get(engine).kwargs.specific_time)
  /\ Get(engine).kwargs.date_filter = Some(RangeDay)
  /\ ~Get(engine).kwargs.month_filter

\* the rows of the queried type and patient on the day
RangeDayRows ==
  LET k == Get(engine).kwargs
      field == IF k.reading_type = "sleep" THEN "date" ELSE "timestamp"
  IN {r \in store.tables[k.reading_type] :
        /\ r.patient_id = Get(engine).result.patient_id
        /\ r[field].year = 2025 /\ r[field].month = 3 /\ r[field].day = 10}

\* 06:00:00 <= time of day <= 12:00:00
StatedMorning(t) ==
  /\ t.hour >= 6
  /\ t.hour < 12 \/ (t.hour = 12 /\ t.minute = 0 /\ t.second = 0)

\* 18:00:00 <= time of day <= 23:59:00
StatedNight(t) ==
  /\ t.hour >= 18
  /\ t.hour < 23 \/ t.minute < 59 \/ (t.minute = 59 /\ t.second = 0)

\* the rows of the day a time_range word keeps
StatedKept(word) ==
  IF lower(word) \in {<<"m", "o", "r", "n", "i", "n", "g">>, <<"a", "m">>}
  THEN {r \in RangeDayRows : StatedMorning(r.timestamp)}
  ELSE IF lower(word) \in {<<"n", "i", "g", "h", "t">>, <<"e", "v", "e", "n", "i", "n", "g">>,
                           <<"p", "m">>}
  THEN {r \in RangeDayRows : StatedNight(r.timestamp)}
  ELSE RangeDayRows

CrossPatientOnSleepOrActivity ==
  /\ CrossPatientCall
  /\ ~IsNone(engine)
  /\ call.op = "MultiPatientAnalysisTool._run" => call.connected
  /\ Get(engine).kwargs.reading_type \in {"sleep", "activity"}

\* C19: a cross-patient query on sleep or activity returns the error that the
\* reading type does not support high/low analysis, and issues no query to
\* the store.
C19_SleepAndActivityUnsupported ==
  CrossPatientOnSleepOrActivity =>
    /\ IsError(Get(engine).result)
    /\ Get(engine).result.error = "Reading type doesn't support high/low analysis"
    /\ Get(engine).result.reading_type = Get(engine).kwargs.reading_type
    /\ "error" \in DOMAIN result
    /\ result.error = "Reading type doesn't support high/low analysis"
    /\ "distinct_patients" \notin DOMAIN result
    /\ QueriesIssued = <<>>

\* the store holds sleep rows, and the cross-patient tool, asked for sleep
\* over a day, returned the error without a query
C19_Witness ==
  /\ CrossPatientOnSleepOrActivity
  /\ call.op = "MultiPatientAnalysisTool._run"
  /\ Get(engine).kwargs.reading_type = "sleep"
  /\ ~IsNone(Get(engine).kwargs.date_filter)
  /\ store.tables["sleep"] # {}
  /\ result.error = "Reading type doesn't support high/low analysis"
  /\ QueriesIssued = <<>>

\* the service was called with valid arguments: a supported reading type, a
\* patient id for a single-patient query, a type with thresholds and a
\* direction for a cross-patient query
ValidArguments ==
  /\ ~IsNone(engine)
  /\ call.op \in {"SpecificMedicalValueTool._run", "MultiPatientAnalysisTool._run"}
       => call.connected
  /\ Get(engine).kwargs.reading_type \in ReadingTypes
  /\ IF CrossPatientCall
     THEN /\ Get(engine).kwargs.reading_type \notin {"sleep", "activity"}
          /\ Get(engine).kwargs.find_type \in {"high", "low"}
     ELSE ~IsNone(Get(engine).kwargs.patient_id)

\* no row of the store matches the query: the patient has no row of the
\* type, or no row of the type is beyond the glucose threshold asked for
MatchesNoRows ==
  LET k == Get(engine).kwargs
      rows == store.tables[k.reading_type]
  IN IF CrossPatientCall
     THEN \A r \in rows :
            /\ k.reading_type = "glucose"
            /\ IF k.find_type = "high" THEN Get(r.value) <= 180 ELSE Get(r.value) >= 70
     ELSE \A r \in rows : r.patient_id # Get(k.patient_id)

\* C20: a query with valid arguments that matches no rows yields a success
\* result, never the error shape: the single-patient result has count 0,
\* no readings and a message that gives the count 0; the cross-patient
\* result has total_patients = 0 and total_readings = 0.
C20_EmptyIsSuccess ==
  (ValidArguments /\ MatchesNoRows) =>
    LET res == Get(engine).result
    IN /\ ~IsError(res)
       /\ "error" \notin DOMAIN result
       /\ IF CrossPatientCall
          THEN res.total_patients = 0 /\ res.total_readings = 0
          ELSE IF Get(engine).kwargs.reading_type = "sleep"
          THEN res.total_sleep_records = 0
          ELSE /\ res.count = 0
               /\ res.readings = <<>>
               /\ res.message.count = 0

(***************************************************************************)
(* Specification SpecFault: single-patient and cross-patient queries on    *)
(* stores whose queries may raise, with bad arguments and failed sessions. *)
(***************************************************************************)
MaxFaultRows == 2

FaultDay == DateTime(2025, 7, 16, 0, 0, 0)

FaultStores ==
  {[users |-> UsersTable,
    tables |-> [EmptyTables EXCEPT !["glucose"] = glucose, !["activity"] = activity],
    raises |-> raises] :
     glucose \in UpTo({Row("glucose", 1, 1, DateTime(2025, 7, 16, 9, 0, 0), 60),
                       Row("glucose", 2, 1, DateTime(2025, 7, 16, 10, 0, 0), 200),
                       Row("glucose", 3, 2, DateTime(2025, 7, 16, 11, 0, 0), 200)}, MaxFaultRows),
     activity \in {{}, {Row("activity", 5, 1, FaultDay, 4000)}},
     raises \in BOOLEAN}

FaultTypes == {"glucose", "sleep", "activity", "weight"}

FaultRequests ==
  [patient_id : {None, Some(1)}, patient_name : {None, Some(<<"A", "n", "n">>)},
   reading_type : FaultTypes, specific_time : {None}, date_filter : {None, Some(FaultDay)},
   time_range : {None}, analysis_type : {"latest", "highest"}, limit : {MaxLimit},
   month_filter : {FALSE}]

FaultToolRequests ==
  [patient_id : {None, Some(1)}, patient_name : {None, Some(<<"A", "n", "n">>)},
   reading_type : {"glucose", "activity", "weight"}, specific_time : {None},
   date_filter : {None, Some(SubSeq(isoformat(FaultDay), 1, 10)),
                  Some(<<"1", "6", "/", "0", "7">>)},
   time_range : {None}, analysis_type : {"latest"}]

FaultGroupRequests ==
  [reading_type : FaultTypes, date_filter : {None, Some(FaultDay)},
   find_type : {"high", "low", "medium"}, all_patients : {TRUE}]

FaultGroupToolRequests ==
  [reading_type : {"glucose", "sleep", "weight"},
   date_filter : {None, Some(<<"1", "6", "/", "0", "7">>)},
   analysis_type : {"high", "medium"}]

InitFault ==
  /\ store \in FaultStores
  /\ call = NoCall
  /\ engine = None
  /\ result = Text("")
  /\ NoOtherObjects

FaultQuery == GetSpecificReadingValue(FaultRequests)

FaultTool == SpecificMedicalValueToolRun({Doctor}, FaultToolRequests)

FaultGroupQuery == GetHighLowReadings(FaultGroupRequests)

FaultGroupTool == MultiPatientAnalysisToolRun(FaultGroupToolRequests)

NextFault == FaultQuery \/ FaultTool \/ FaultGroupQuery \/ FaultGroupTool

SpecFault == InitFault /\ [][NextFault]_vars

\* the call failed inside the engine: the store raised on a query, the
\* session could not be opened, or an argument was bad
FailedInside ==
  /\ ~IsNone(engine)
  /\ \/ store.raises /\ Get(engine).queries # <<>>
     \/ ToolCall /\ ~call.connected
     \/ Get(engine).kwargs.reading_type \notin ReadingTypes
     \/ CrossPatientCall /\ Get(engine).kwargs.find_type \notin {"high", "low"}
                         /\ Get(engine).kwargs.reading_type \notin {"sleep", "activity"}

\* C21: no exception leaves the service, the delegate or a tool: every
\* outcome is a payload, a failure inside the engine is an error payload, and
\* a tool that got an error payload answers with an error string.
C21_NoExceptionCrossesTheBoundary ==
  /\ "raised" \notin DOMAIN result
  /\ ~IsNone(engine) => "raised" \notin DOMAIN Get(engine).result
  /\ FailedInside =>
       /\ IsError(Get(engine).result)
       /\ ToolCall => result.text = "Error" /\ result.error = Get(engine).result.error

\* the store raised on the readings query of a tool call, and the tool
\* answered with the error string of the database error
C21_Witness ==
  /\ call.op = "SpecificMedicalValueTool._run"
  /\ call.connected
  /\ store.raises
  /\ ~IsNone(engine)
  /\ Get(engine).queries = <<"glucose">>
  /\ Get(engine).result = Error("Database error")
  /\ result.text = "Error"

(***************************************************************************)
(* Specification SpecNames: single-patient queries that name the patient,  *)
(* over users tables of every content and return order drawn from four    *)
(* users, each with one glucose reading.                                   *)
(***************************************************************************)
MaxUsers == 3

NamePool ==
  {[id |-> 1, first_name |-> Some(<<"A", "n", "n">>), last_name |-> Some(<<"L", "e", "e">>),
    role_id |-> 1],
   [id |-> 2, first_name |-> Some(<<"B", "o">>), last_name |-> Some(<<"L", "e", "e">>),
    role_id |-> 1],
   [id |-> 3, first_name |-> Some(<<"M", "a", "r", "y", " ", "A", "n", "n">>),
    last_name |-> Some(<<"S", "m", "i", "t", "h">>), role_id |-> 1],
   [id |-> 4, first_name |-> Some(<<"L", "e", "e">>), last_name |-> Some(<<"H", "a", "n", "n">>),
    role_id |-> 1]}

\* the users tables: up to MaxUsers users of the pool in any return order
NameUsers ==
  {u \in UNION {[1..n -> NamePool] : n \in 0..MaxUsers} :
     \A i, j \in 1..Len(u) : i # j => u[i] # u[j]}

NameStores ==
  {[users |-> users,
    tables |-> [EmptyTables EXCEPT
                  !["glucose"] = {Row("glucose", users[i].id, users[i].id,
                                      DateTime(2025, 7, 16, 9, 0, 0), 100 + users[i].id) :
                                    i \in 1..Len(users)}]] :
     users \in NameUsers}

NameStrings ==
  {<<"A", "n", "n">>, <<"L", "E", "E">>, <<"a", "n", "n", " ", "l", "e", "e">>,
   <<"M", "a", "r", "y", " ", "A", "n", "n">>, <<"L", "e", "e", " ", "A", "n", "n">>,
   <<"M", "a", "r", "y", " ", "L", "e", "e">>, <<"Z", "e", "d">>, <<" ", "b", "o", " ">>}

NameRequests ==
  [patient_id : {None, Some(2)}, patient_name : {None} \cup {Some(n) : n \in NameStrings},
   reading_type : {"glucose"}, specific_time : {None}, date_filter : {None},
   time_range : {None}, analysis_type : {"latest"}, limit : {MaxLimit}, month_filter : {FALSE}]

NameToolRequests ==
  [patient_id : {None}, patient_name : {Some(<<"L", "E", "E">>), Some(<<"Z", "e", "d">>)},
   reading_type : {"glucose"}, specific_time : {None}, date_filter : {None},
   time_range : {None}, analysis_type : {"latest"}]

\* a patient whose token carries no user id
NameContexts == {Doctor, Some([role_id |-> 1, user_id |-> None])}

InitNames ==
  /\ store \in NameStores
  /\ call = NoCall
  /\ engine = None
  /\ result = Text("")
  /\ NoOtherObjects

NameQuery == GetSpecificReadingValue(NameRequests)

NameTool == SpecificMedicalValueToolRun(NameContexts, NameToolRequests)

NextNames == NameQuery \/ NameTool

SpecNames == InitNames /\ [][NextNames]_vars

\* the service was called without a patient id
CalledWithoutId ==
  /\ ~IsNone(engine)
  /\ call.op = "SpecificMedicalValueTool._run" => call.connected
  /\ IsNone(Get(engine).kwargs.patient_id)

\* the name the service was called with, lowercased and trimmed
CalledName == strip(lower(Get(Get(engine).kwargs.patient_name)))

\* the positions in the users table of the users a name stands for
StatedCandidates ==
  LET name == CalledName
      tokens == split(name)
      first(i) == Get(store.users[i].first_name)
      last(i) == Get(store.users[i].last_name)
      both == {i \in 1..Len(store.users) :
                 Contains(first(i), tokens[1]) /\ Contains(last(i), tokens[Len(tokens)])}
      whole == {i \in 1..Len(store.users) :
                  \/ Contains(first(i), name)
                  \/ Contains(last(i), name)
                  \/ Contains(first(i) \o <<" ">> \o last(i), name)}
  IN IF Len(tokens) >= 2 THEN (IF both # {} THEN both ELSE whole) ELSE whole

\* C22: a single-patient query with neither a patient id nor a patient name,
\* or with a name that matches no stored patient, returns the error "Patient
\* not found" and fetches no readings.
C22_UnresolvedPatientIsNotFound ==
  (/\ CalledWithoutId
   /\ IsNone(Get(engine).kwargs.patient_name) \/ StatedCandidates = {})
    => /\ Get(engine).result = Error("Patient not found")
       /\ \A i \in 1..Len(Get(engine).queries) : Get(engine).queries[i] = "users"
       /\ "readings" \notin DOMAIN result
       /\ "patient_id" \notin DOMAIN result

\* the users table holds patients, none of them called Zed: the query for
\* "Zed" looked the users up once and returned the error
C22_Witness ==
  /\ CalledWithoutId
  /\ call.op = "get_specific_reading_value"
  /\ Get(engine).kwargs.patient_name = Some(<<"Z", "e", "d">>)
  /\ Len(store.users) = MaxUsers
  /\ Get(engine).queries = <<"users">>
  /\ result = Error("Patient not found")

\* C23: a name of two or more tokens stands for the patients whose first
\* name contains the first token and whose last name contains the last
\* token, and only when there are none for those whose first name, last name
\* or "first last" contains the whole name; a single token for those whose
\* first or last name contains it, all case-insensitively.  The query answers
\* for the first of them in the return order of the users table, and several
\* candidates are no error.
C23_OrderedMatchPolicy ==
  (/\ CalledWithoutId
   /\ ~IsNone(Get(engine).kwargs.patient_name)
   /\ StatedCandidates # {})
    => LET first == CHOOSE i \in StatedCandidates : \A j \in StatedCandidates : i <= j
       IN /\ ~IsError(Get(engine).result)
          /\ Get(engine).result.patient_id = store.users[first].id
          /\ Get(engine).result.readings[1].value = 100 + store.users[first].id

\* "Mary Ann" has no user with Mary in the first and Ann in the last name:
\* the whole name is looked for, and of the users with "Lee" the query for
\* "LEE" answers for the first in the table, here user 4 before user 1
C23_Witness ==
  /\ CalledWithoutId
  /\ Len(store.users) = MaxUsers
  /\ store.users[1].id = 4
  /\ store.users[2].id = 1
  /\ Get(engine).kwargs.patient_name = Some(<<"L", "E", "E">>)
  /\ Cardinality(StatedCandidates) >= 2
  /\ result.patient_id = 4

(***************************************************************************)
(* Specification SpecOverride: single-patient queries that carry a         *)
(* specific_time of 2025-03-10 12:30:00 together with a date_filter, a     *)
(* month flag or a time_range.                                             *)
(***************************************************************************)
MaxOverrideRows == 2

OverridePoint == DateTime(2025, 3, 10, 12, 30, 0)

OverrideTimes ==
  <<DateTime(2025, 3, 10, 11, 29, 59), DateTime(2025, 3, 10, 11, 30, 0),
    DateTime(2025, 3, 10, 13, 30, 0), DateTime(2025, 3, 10, 13, 30, 1),
    DateTime(2025, 4, 2, 12, 30, 0)>>

OverrideCandidates ==
  {[id |-> i, patient_id |-> 1, at |-> OverrideTimes[i], v |-> 100 + i] :
     i \in 1..Len(OverrideTimes)}

OverrideStores ==
  {[users |-> UsersTable,
    tables |-> [EmptyTables EXCEPT
                  !["glucose"] = RankTable("glucose", selection),
                  !["sleep"] = {SleepRow(c.id, c.patient_id, c.at, Some(c.v), Some(1)) :
                                  c \in selection}]] :
     selection \in UpTo(OverrideCandidates, MaxOverrideRows)}

\* no date, the day of the point, and a day and a month without the point
OverrideDates ==
  {[date_filter |-> None, month_filter |-> FALSE],
   [date_filter |-> Some(DateTime(2025, 3, 10, 0, 0, 0)), month_filter |-> FALSE],
   [date_filter |-> Some(DateTime(2025, 4, 2, 0, 0, 0)), month_filter |-> FALSE],
   [date_filter |-> Some(DateTime(2025, 4, 1, 0, 0, 0)), month_filter |-> TRUE]}

OverrideRequests ==
  {d @@ [patient_id |-> Some(1), patient_name |-> None, reading_type |-> t,
         specific_time |-> st, time_range |-> tr, analysis_type |-> "latest", limit |-> 10] :
     d \in OverrideDates, t \in {"glucose", "sleep"}, st \in {None, Some(OverridePoint)},
     tr \in {None, Some(<<"m", "o", "r", "n", "i", "n", "g">>), Some(<<"n", "i", "g", "h", "t">>)}}

OverrideToolRequests ==
  [patient_id : {Some(1)}, patient_name : {None}, reading_type : {"glucose"},
   specific_time : {Some(isoformat(OverridePoint))},
   date_filter : {None, Some(<<"2", "0", "2", "5", "-", "0", "4">>),
                  Some(<<"2", "0", "2", "5", "-", "0", "4", "-", "0", "2">>)},
   time_range : {None, Some(<<"n", "i", "g", "h", "t">>)},
   analysis_type : {"latest"}]

InitOverride ==
  /\ store \in OverrideStores
  /\ call = NoCall
  /\ engine = None
  /\ result = Text("")
  /\ NoOtherObjects

OverrideQuery == GetSpecificReadingValue(OverrideRequests)

OverrideTool == SpecificMedicalValueToolRun({Doctor}, OverrideToolRequests)

NextOverride == OverrideQuery \/ OverrideTool

SpecOverride == InitOverride /\ [][NextOverride]_vars

\* the engine answered a query that carries the specific_time
OverrideAnswered ==
  /\ ~IsNone(engine)
  /\ Get(engine).kwargs.specific_time = Some(OverridePoint)
  /\ ~IsError(Get(engine).result)

\* the rows of the queried type and patient in [11:30:00, 13:30:00] of
\* 2025-03-10
OverrideWindow ==
  LET k == Get(engine).kwargs
      field == IF k.reading_type = "sleep" THEN "date" ELSE "timestamp"
      tod(t) == 3600 * t.hour + 60 * t.minute + t.second
  IN {r \in store.tables[k.reading_type] :
        /\ r.patient_id = Get(engine).result.patient_id
        /\ r[field].year = 2025 /\ r[field].month = 3 /\ r[field].day = 10
        /\ tod(r[field]) >= 3600 * 11 + 1800
        /\ tod(r[field]) <= 3600 * 13 + 1800}

\* C30: a single-patient query with a specific_time T fetches the rows with
\* T - 1h <= timestamp <= T + 1h whatever date_filter, month flag and
\* time_range come with it.
C30_PointWindowOverrides ==
  OverrideAnswered =>
    LET k == Get(engine).kwargs
        res == Get(engine).result
        W == OverrideWindow
    IN IF k.reading_type = "sleep"
       THEN /\ res.total_sleep_records = Cardinality(W)
            /\ res.total_sleep_minutes = SetSum(W, [r \in W |-> Get(r.value)])
       ELSE /\ Len(res.readings) = Cardinality(W)
            /\ \A r \in W : \E i \in 1..Len(res.readings) :
                 /\ res.readings[i].timestamp = Some(isoformat(r.timestamp))
                 /\ res.readings[i].value = Get(r.value)

\* the query carries the point, a month without the point and time_range
\* night, and still returns the rows at 11:30:00 and 13:30:00
C30_Witness ==
  /\ OverrideAnswered
  /\ call.op = "get_specific_reading_value"
  /\ Get(engine).kwargs.reading_type = "glucose"
  /\ Get(engine).kwargs.month_filter
  /\ Get(engine).kwargs.date_filter = Some(DateTime(2025, 4, 1, 0, 0, 0))
  /\ Get(engine).kwargs.time_range = Some(<<"n", "i", "g", "h", "t">>)
  /\ Len(result.readings) = 2
  /\ result.readings[1].timestamp = Some(isoformat(DateTime(2025, 3, 10, 13, 30, 0)))
  /\ result.readings[2].timestamp = Some(isoformat(DateTime(2025, 3, 10, 11, 30, 0)))

(***************************************************************************)
(* The newest readings, under Spec                                         *)
(***************************************************************************)
\* the engine answered a glucose query without a specific_time
NewestAnswered ==
  /\ call.op \in {"get_specific_reading_value", "SpecificMedicalValueTool._run"}
  /\ ~IsNone(engine)
  /\ IsNone(Get(engine).kwargs.specific_time)
  /\ Get(engine).kwargs.reading_type = "glucose"
  /\ Get(engine).kwargs.analysis_type \in {"specific", "latest"}
  /\ ~IsError(Get(engine).result)

\* the rows of the patient: without a window, all of them
NewestWindow ==
  {r \in store.tables["glucose"] : r.patient_id = Get(engine).result.patient_id}

\* C25: a non-sleep query with analysis_type specific and no specific_time,
\* or with analysis_type latest, returns the newest rows of the window,
\* newest first: one row for specific, up to limit rows for latest; and the
\* reading the tool reports as latest is the row with the greatest timestamp.
C25_NewestFirst ==
  NewestAnswered =>
    LET k == Get(engine).kwargs
        L == Get(engine).result.readings
        W == NewestWindow
        taken == IF k.analysis_type = "specific" THEN 1 ELSE k.limit
        at(i) == CHOOSE r \in W : Some(isoformat(r.timestamp)) = L[i].timestamp
    IN /\ Len(L) = (IF Cardinality(W) < taken THEN Cardinality(W) ELSE taken)
       /\ \A i \in 1..Len(L) :
            /\ \E r \in W : Some(isoformat(r.timestamp)) = L[i].timestamp
            /\ L[i].value = Get(at(i).value)
       /\ \A i, j \in 1..Len(L) :
            i < j => Secs(at(i).timestamp) > Secs(at(j).timestamp)
       /\ \A r \in W :
            (\A i \in 1..Len(L) : at(i) # r) =>
              \A i \in 1..Len(L) : Secs(r.timestamp) < Secs(at(i).timestamp)
       /\ (call.op = "SpecificMedicalValueTool._run" /\ W # {}) =>
            /\ \A r \in W : Secs(r.timestamp) <= Secs(at(1).timestamp)
            /\ result.latest_reading = L[1]
            /\ result.total_readings_found = Len(L)

\* the patient has three readings and two were asked for as latest: the
\* readings of 11:00:01 and 11:00:00 are returned in this order
C25_Witness ==
  /\ NewestAnswered
  /\ call.op = "get_specific_reading_value"
  /\ Get(engine).kwargs.analysis_type = "latest"
  /\ Get(engine).kwargs.limit = 2
  /\ Cardinality(NewestWindow) = 3
  /\ Len(result.readings) = 2
  /\ result.readings[1].timestamp = Some(isoformat(DateTime(2025, 7, 16, 11, 0, 1)))
  /\ result.readings[2].timestamp = Some(isoformat(DateTime(2025, 7, 16, 11, 0, 0)))

(***************************************************************************)
(* Specification SpecRepeat: sequences of single-patient and cross-patient *)
(* queries on one MedicalReadingsService instance over an unchanged store. *)
(* The instance holds model_map; the call record keeps, next to the call,  *)
(* the calls made on the instance before it.                               *)
(***************************************************************************)
MaxRepeatRows == 3

MaxCalls == 3

\* MedicalReadingsService.__init__: self.model_map = self._get_model_map()
MedicalReadingsService_init == [model_map |-> ReadingTypes]

\* a cross-patient query that drops sleep and activity from self.model_map
\* itself
ModelMapAfter_InPlace(model_map, op) ==
  IF op = "get_high_low_readings" THEN model_map \ {"sleep", "activity"} ELSE model_map

\* self.model_map after a call: both methods only read it (analysis_models at
\* line 255 is a new dict)
ModelMapAfter(model_map, op) == model_map

\* a call on a kept instance: the reading types it knows are the keys of its
\* model_map
OnInstance(svc, op, a) ==
  IF a.reading_type \notin svc.model_map
  THEN {IF op = "get_high_low_readings" THEN InvalidReadingTypeOf(a.reading_type)
        ELSE InvalidReadingType(a.reading_type)}
  ELSE IF op = "get_high_low_readings" THEN get_high_low_readings(store, a)
  ELSE get_specific_reading_value(store, a)

\* two patients with the same highest value, at instants of their own
RepeatCandidates ==
  {Row("glucose", 1, 1, DateTime(2025, 7, 16, 9, 0, 0), 200),
   Row("glucose", 2, 2, DateTime(2025, 7, 16, 10, 0, 0), 200),
   Row("glucose", 3, 1, DateTime(2025, 7, 16, 11, 0, 0), 190),
   Row("glucose", 4, 2, DateTime(2025, 7, 16, 12, 0, 0), 60)}

RepeatStores ==
  {[users |-> UsersTable,
    tables |-> [EmptyTables EXCEPT
                  !["glucose"] = glucose,
                  !["sleep"] = {SleepRow(5, 1, DateTime(2025, 7, 16, 0, 0, 0), Some(45), Some(1))}]] :
     glucose \in UpTo(RepeatCandidates, MaxRepeatRows)}

RepeatRequests ==
  [patient_id : {Some(1)}, patient_name : {None}, reading_type : {"glucose", "sleep"},
   specific_time : {None}, date_filter : {None}, time_range : {None},
   analysis_type : {"latest"}, limit : {MaxLimit}, month_filter : {FALSE}]

RepeatGroupRequests ==
  [reading_type : {"glucose", "sleep"}, date_filter : {None},
   find_type : {"high"}, all_patients : {TRUE}]

InitRepeat ==
  /\ store \in RepeatStores
  /\ call = NoCall
  /\ engine = None
  /\ result = Text("")
  /\ manager = None
  /\ device_service = None
  /\ session_agents = <<>>
  /\ service = MedicalReadingsService_init
  /\ requests = {}

\* the calls made on the instance so far, the last one included
CallsSoFar ==
  IF call.op = "none" THEN {}
  ELSE call.before \cup {[op |-> call.op, args |-> call.args, result |-> result]}

RepeatCall(op, Requests) ==
  \E a \in Requests : \E res \in OnInstance(service, op, a) :
    /\ Cardinality(CallsSoFar) < MaxCalls
    /\ call' = [op |-> op, args |-> a, before |-> CallsSoFar]
    /\ engine' = Some([kwargs |-> a, result |-> res,
                       queries |-> IF op = "get_high_low_readings"
                                   THEN Queries_get_high_low_readings(store, a)
                                   ELSE Queries_get_specific_reading_value(store, a)])
    /\ result' = res
    /\ service' = [service EXCEPT !.model_map = ModelMapAfter(@, op)]
    /\ UNCHANGED <<store, manager, device_service, session_agents, requests>>

RepeatQuery == RepeatCall("get_specific_reading_value", RepeatRequests)

RepeatGroupQuery == RepeatCall("get_high_low_readings", RepeatGroupRequests)

NextRepeat == RepeatQuery \/ RepeatGroupQuery

SpecRepeat == InitRepeat /\ [][NextRepeat]_vars

MaxSessions == 4

NoSession == 0

ServiceNames ==
  {"medical_readings", "medications", "foodlog", "protocol", "plan", "patient_doctor_mapping"}

\* the delegate methods, by the service property they use
Delegates ==
  [get_specific_reading_value |-> "medical_readings",
   get_high_low_readings |-> "medical_readings",
   get_medications |-> "medications",
   get_foodlog |-> "foodlog",
   get_protocols |-> "protocol",
   get_user_plans |-> "plan",
   get_current_active_plan |-> "plan",
   get_plan_usage_summary |-> "plan",
   get_patient_doctors |-> "patient_doctor_mapping",
   get_doctor_patients |-> "patient_doctor_mapping",
   get_primary_doctor |-> "patient_doctor_mapping",
   check_doctor_patient_access |-> "patient_doctor_mapping"]

\* the service fields _get_session sets to None (lines 155-158)
ResetBySession == {"medical_readings", "medications", "foodlog", "protocol"}

\* the service fields close sets to None (lines 132-136)
ResetByClose == ResetBySession \cup {"plan"}

\* DatabaseManager._get_session: created says whether SessionLocal() gave a
\* session; when it did not, the except branch leaves db = None
DatabaseManager_get_session(m, created) ==
  IF created
  THEN [db |-> m.made + 1, made |-> m.made + 1,
        services |-> [n \in ServiceNames |->
                        IF n \in ResetBySession THEN NoSession ELSE m.services[n]]]
  ELSE [m EXCEPT !.db = NoSession]

\* DatabaseManager.__init__
DatabaseManager_init(created) ==
  DatabaseManager_get_session(
    [db |-> NoSession, made |-> 0, services |-> [n \in ServiceNames |-> NoSession]], created)

\* DatabaseManager.close: nothing happens when db is None
DatabaseManager_close(m) ==
  IF m.db # NoSession
  THEN [m EXCEPT !.db = NoSession,
                 !.services = [n \in ServiceNames |->
                                 IF n \in ResetByClose THEN NoSession ELSE m.services[n]]]
  ELSE m

\* DatabaseManager._handle_db_error: rollback and close of the session, then
\* _get_session
DatabaseManager_handle_db_error(m, created) == DatabaseManager_get_session(m, created)

\* the service property accessors: construct on the current session when none
\* is cached
ServiceProperty(m, name) ==
  IF m.services[name] = NoSession /\ m.db # NoSession
  THEN [m EXCEPT !.services[name] = m.db]
  ELSE m

InitManager ==
  /\ store = [users |-> UsersTable, tables |-> EmptyTables]
  /\ call = NoCall
  /\ engine = None
  /\ result = Text("")
  /\ \E created \in BOOLEAN : manager = DatabaseManager_init(created)
  /\ device_service = None
  /\ session_agents = <<>>
  /\ service = None
  /\ requests = {}

\* a delegate method: reopen when db is None, give up when that fails, take
\* the service from its property, run it, and on an exception call
\* _handle_db_error; a call opens at most two sessions
ManagerDelegate ==
  \E name \in DOMAIN Delegates : \E reopened, raises, recreated \in BOOLEAN :
    LET opened == IF manager.db = NoSession
                  THEN DatabaseManager_get_session(manager, reopened)
                  ELSE manager
        cached == ServiceProperty(opened, Delegates[name])
    IN /\ manager.made + 2 <= MaxSessions
       /\ IF opened.db = NoSession
          THEN /\ manager' = opened
               /\ call' = [op |-> name, ran |-> FALSE]
               /\ result' = Error("Database connection failed")
          ELSE /\ call' = [op |-> name, ran |-> TRUE, db |-> cached.db,
                           session |-> cached.services[Delegates[name]]]
               /\ IF raises
                  THEN /\ manager' = DatabaseManager_handle_db_error(cached, recreated)
                       /\ result' = Error("Database error")
                  ELSE /\ manager' = cached
                       /\ result' = Text("returned")
       /\ UNCHANGED <<store, engine, device_service, session_agents, service, requests>>

ManagerGetSession ==
  \E created \in BOOLEAN :
    /\ manager.made < MaxSessions
    /\ manager' = DatabaseManager_get_session(manager, created)
    /\ call' = [op |-> "_get_session", ran |-> FALSE]
    /\ result' = Text("")
    /\ UNCHANGED <<store, engine, device_service, session_agents, service, requests>>

ManagerClose ==
  /\ manager' = DatabaseManager_close(manager)
  /\ call' = [op |-> "close", ran |-> FALSE]
  /\ result' = Text("")
  /\ UNCHANGED <<store, engine, device_service, session_agents, service, requests>>

NextManager == ManagerDelegate \/ ManagerGetSession \/ ManagerClose

SpecManager == InitManager /\ [][NextManager]_vars

\* C26: every cached service is bound to the manager's current session, a
\* delegate call runs its service on the session that is current at that
\* moment, and after close no cached service remains.
C26_ServicesBoundToCurrentSession ==
  /\ \A n \in ServiceNames :
       manager.services[n] # NoSession => manager.services[n] = manager.db
  /\ (call.op \in DOMAIN Delegates /\ call.ran) => call.session = call.db
  /\ call.op = "close" => \A n \in ServiceNames : manager.services[n] = NoSession

(***************************************************************************)
(* Specification SpecDevice: calls on the DeviceService that               *)
(* get_device_service keeps in a module global, with its one               *)
(* DatabaseManager.  A device row holds the age of its session in days in  *)
(* place of session_start_date.  dal/models/base.py is not among the       *)
(* sources, so whether a Users row has a name attribute is decided by the  *)
(* store: UsersTable has none, NamedUsersTable has one.                    *)
(***************************************************************************)
MaxDevices == 2

\* Devices.expiry_date: session_start_date + timedelta(days=15)
CgmDays == 15

Cgm == <<"C", "G", "M">>

Device(k, patient_id, name, status, session_age) ==
  [id |-> k, patient_id |-> patient_id, name |-> Some(name), status |-> status,
   session_age |-> session_age]

NamedUsersTable ==
  [i \in DOMAIN UsersTable |-> UsersTable[i] @@ [name |-> FullName(UsersTable[i])]]

IsCgm(d) == ~IsNone(d.name) /\ Contains(Get(d.name), <<"c", "g", "m">>)

\* Devices.is_expired
Devices_is_expired(d) ==
  IF IsNone(d.session_age) \/ d.status # 1 THEN TRUE
  ELSE IF IsCgm(d) THEN Get(d.session_age) > CgmDays
  ELSE FALSE

\* Devices.expiry_date, in days from now
Devices_expiry_date(d) ==
  IF IsNone(d.session_age) THEN None
  ELSE IF IsCgm(d) THEN Some(CgmDays - Get(d.session_age))
  ELSE None

\* Devices.days_until_expiry
Devices_days_until_expiry(d) ==
  IF IsNone(Devices_expiry_date(d)) THEN None
  ELSE IF Get(Devices_expiry_date(d)) >= 0 THEN Devices_expiry_date(d) ELSE Some(0)

\* to_dict with the three expiry entries the service adds
DeviceDict(d) ==
  [id |-> d.id, name |-> d.name, patient_id |-> d.patient_id, status |-> d.status,
   is_expired |-> Devices_is_expired(d), expiry_date |-> Devices_expiry_date(d),
   days_until_expiry |-> Devices_days_until_expiry(d)]

\* what a call returned, as against Raised
Returned(value) == [returned |-> value]

IsRaised(outcome) == "raised" \in DOMAIN outcome

\* query(...).first()
FirstRow(rows) == IF rows = <<>> THEN None ELSE Some(rows[1])

UsersById(st, user_id) == SelectSeq(st.users, LAMBDA u : u.id = user_id)

\* DeviceService._resolve_patient_name_to_id: a patient id, None, or the
\* AttributeError of a Users row without name
DeviceService_resolve_patient_name_to_id(st, patient_name, role, user_id) ==
  IF role = "patient"
  THEN LET user == FirstRow(UsersById(st, user_id))
       IN IF IsNone(user) THEN Returned(None)
          ELSE IF ~hasattr(Get(user), "name") THEN Raised("AttributeError")
          ELSE IF IsNone(Get(user).name) THEN Raised("AttributeError")
          ELSE IF lower(Get(Get(user).name)) = lower(patient_name) THEN Returned(Some(user_id))
          ELSE Returned(None)
  ELSE IF role \in {"doctor", "staff"}
  THEN IF \E i \in DOMAIN st.users : ~hasattr(st.users[i], "name")
       THEN Raised("AttributeError")
       ELSE LET user == FirstRow(SelectSeq(st.users, LAMBDA u : ilike(u.name, patient_name)))
            IN IF IsNone(user) THEN Returned(None) ELSE Returned(Some(Get(user).id))
  ELSE Returned(None)

PatientOf(st, d) == FirstRow(UsersById(st, d.patient_id))

\* the loop of get_cgm_devices and get_all_devices_for_user: patient.name for
\* the user of each device
WithPatientName(st, devices) ==
  IF \E i \in DOMAIN devices :
       ~IsNone(PatientOf(st, devices[i])) /\ ~hasattr(Get(PatientOf(st, devices[i])), "name")
  THEN Raised("AttributeError")
  ELSE Returned([i \in DOMAIN devices |->
          DeviceDict(devices[i]) @@
            [patient_name |->
               IF IsNone(PatientOf(st, devices[i])) THEN Some(<<"U", "n", "k", "n", "o", "w", "n">>)
               ELSE Get(PatientOf(st, devices[i])).name]])

Dicts(devices) == [i \in DOMAIN devices |-> DeviceDict(devices[i])]

\* the bodies of the five methods inside the with-block, past the check of
\* db_mgr.db; a is the record of the arguments
Try_get_device_by_id(st, a) ==
  LET device == FirstRow(SelectSeq(st.devices, LAMBDA d : d.id = a.device_id))
  IN IF IsNone(device) THEN Returned(None)
     ELSE IF a.role = "patient" /\ Get(device).patient_id # a.user_id THEN Returned(None)
     ELSE Returned(Some(DeviceDict(Get(device))))

Try_get_devices_for_patient(st, a) ==
  IF a.role = "patient" /\ a.patient_id # a.user_id THEN Returned(<<>>)
  ELSE Returned(Dicts(SelectSeq(st.devices,
                  LAMBDA d : d.patient_id = a.patient_id
                             /\ (IsNone(a.device_name) \/ ilike(d.name, Get(a.device_name))))))

Try_get_cgm_devices(st, a) ==
  LET active == SelectSeq(st.devices, LAMBDA d : ilike(d.name, <<"c", "g", "m">>) /\ d.status = 1)
      patient_id == DeviceService_resolve_patient_name_to_id(st, Get(a.patient_name), a.role, a.user_id)
  IN IF a.role = "patient"
     THEN WithPatientName(st, SelectSeq(active, LAMBDA d : d.patient_id = a.user_id))
     ELSE IF ~IsNone(a.patient_name) /\ a.role \in {"doctor", "staff"}
     THEN IF IsRaised(patient_id) THEN patient_id
          ELSE IF IsNone(patient_id.returned) THEN Returned(<<>>)
          ELSE WithPatientName(st, SelectSeq(active,
                                     LAMBDA d : d.patient_id = Get(patient_id.returned)))
     ELSE WithPatientName(st, active)

ExpiryAnswer(device) ==
  IF IsNone(device) THEN [success |-> FALSE, message |-> "No active device found"]
  ELSE IF Devices_is_expired(Get(device))
  THEN [success |-> TRUE, is_expired |-> TRUE,
        message |-> IF IsNone(Devices_expiry_date(Get(device)))
                    THEN "has expired (no session start date found)" ELSE "expired on"]
  ELSE IF IsNone(Devices_expiry_date(Get(device)))
  THEN [success |-> TRUE, is_expired |-> FALSE,
        message |-> "is active but no expiry date is set"]
  ELSE [success |-> TRUE, is_expired |-> FALSE,
        days_until_expiry |-> Get(Devices_days_until_expiry(Get(device))),
        message |-> IF Get(Devices_days_until_expiry(Get(device))) <= 3 THEN "expires very soon"
                    ELSE IF Get(Devices_days_until_expiry(Get(device))) <= 7 THEN "expires soon"
                    ELSE "expires"]

Try_check_device_expiry(st, a) ==
  LET active == SelectSeq(st.devices, LAMBDA d : ilike(d.name, a.device_name) /\ d.status = 1)
      patient_user == FirstRow(UsersById(st, a.user_id))
      patient_id == DeviceService_resolve_patient_name_to_id(st, Get(a.patient_name), a.role, a.user_id)
  IN IF a.role = "patient"
     THEN IF ~IsNone(patient_user) /\ ~hasattr(Get(patient_user), "name")
          THEN Raised("AttributeError")
          ELSE Returned(ExpiryAnswer(FirstRow(SelectSeq(active,
                          LAMBDA d : d.patient_id = a.user_id))))
     ELSE IF ~IsNone(a.patient_name) /\ a.role \in {"doctor", "staff"}
     THEN IF IsRaised(patient_id) THEN patient_id
          ELSE IF IsNone(patient_id.returned)
          THEN Returned([success |-> FALSE, message |-> "Patient not found or access denied."])
          ELSE Returned(ExpiryAnswer(FirstRow(SelectSeq(active,
                          LAMBDA d : d.patient_id = Get(patient_id.returned)))))
     ELSE Returned([success |-> FALSE,
                    message |-> "Patient name is required for doctors and staff."])

Try_get_all_devices_for_user(st, a) ==
  IF a.role = "patient"
  THEN WithPatientName(st, SelectSeq(st.devices, LAMBDA d : d.patient_id = a.user_id))
  ELSE WithPatientName(st, st.devices)

DeviceMethods ==
  {"get_device_by_id", "get_devices_for_patient", "get_cgm_devices", "check_device_expiry",
   "get_all_devices_for_user"}

TryDeviceMethod(method, st, a) ==
  CASE method = "get_device_by_id" -> Try_get_device_by_id(st, a)
    [] method = "get_devices_for_patient" -> Try_get_devices_for_patient(st, a)
    [] method = "get_cgm_devices" -> Try_get_cgm_devices(st, a)
    [] method = "check_device_expiry" -> Try_check_device_expiry(st, a)
    [] method = "get_all_devices_for_user" -> Try_get_all_devices_for_user(st, a)

\* what a method returns when db_mgr.db is None
NotAvailable(method) ==
  IF method = "get_device_by_id" THEN None
  ELSE IF method = "check_device_expiry"
  THEN [success |-> FALSE, message |-> "Database connection not available"]
  ELSE <<>>

\* what the except branch of a method returns
DeviceCaught(method) ==
  IF method = "get_device_by_id" THEN None
  ELSE IF method = "check_device_expiry"
  THEN [success |-> FALSE, message |-> "Error checking device expiry"]
  ELSE <<>>

\* DeviceService.__init__
DeviceService_init(db_manager) == [db_manager |-> db_manager]

\* DatabaseManager.__enter__: return self
DatabaseManager_enter(m) == m

\* DatabaseManager.__exit__
DatabaseManager_exit(m) == DatabaseManager_close(m)

\* get_device_service: construct the manager and the service on the first
\* call, return the kept one afterwards
get_device_service(kept, created) ==
  IF IsNone(kept) THEN DeviceService_init(DatabaseManager_init(created)) ELSE Get(kept)

DeviceCandidates ==
  {Device(1, 1, Cgm, 1, Some(10)),
   Device(2, 1, Cgm, 1, Some(20)),
   Device(3, 2, <<"B", "P">>, 1, None),
   Device(4, 2, Cgm, 2, Some(14))}

RECURSIVE DevicesById(_)
DevicesById(S) ==
  IF S = {} THEN <<>>
  ELSE LET first == CHOOSE d \in S : \A e \in S : d.id <= e.id
       IN <<first>> \o DevicesById(S \ {first})

DeviceStores ==
  {[users |-> users, tables |-> EmptyTables, devices |-> DevicesById(devices)] :
     users \in {UsersTable, NamedUsersTable}, devices \in UpTo(DeviceCandidates, MaxDevices)}

DeviceRequests ==
  [device_id : {1}, patient_id : {1}, patient_name : {None, Some(<<"A", "n", "n">>)},
   device_name : {Some(Cgm)}, role : {"patient", "doctor"}, user_id : {1, 7}]

InitDevice ==
  /\ store \in DeviceStores
  /\ call = NoCall
  /\ engine = None
  /\ result = Text("")
  /\ manager = None
  /\ device_service = None
  /\ session_agents = <<>>
  /\ service = None
  /\ requests = {}

\* how many DeviceService calls have completed, the last one included
CallsCompleted == IF call.op = "none" THEN 0 ELSE call.nth

\* get_device_service().method(...): enter the with-block on the kept
\* manager, return the not-available value when it has no session, run the
\* method otherwise, and close the manager on leaving the block
DeviceCall ==
  \E method \in DeviceMethods : \E a \in DeviceRequests :
  \E created \in IF IsNone(device_service) THEN BOOLEAN ELSE {TRUE} :
    LET svc == get_device_service(device_service, created)
        db_mgr == DatabaseManager_enter(svc.db_manager)
        outcome == TryDeviceMethod(method, store,
                     IF method = "check_device_expiry" THEN [a EXCEPT !.device_name = Get(@)] ELSE a)
    IN /\ CallsCompleted < MaxCalls
       /\ call' = [op |-> method, args |-> a, nth |-> CallsCompleted + 1,
                   made |-> db_mgr.made > 0, db |-> db_mgr.db]
       /\ result' = IF db_mgr.db = NoSession THEN Returned(NotAvailable(method))
                     ELSE IF IsRaised(outcome) THEN Returned(DeviceCaught(method))
                     ELSE outcome
       /\ device_service' = Some([svc EXCEPT !.db_manager = DatabaseManager_exit(db_mgr)])
       /\ UNCHANGED <<store, engine, manager, session_agents, service, requests>>

NextDevice == DeviceCall

SpecDevice == InitDevice /\ [][NextDevice]_vars

\* C27: a call on the shared DeviceService that follows a completed call
\* finds the manager's session open inside its with-block.
C27_SessionOpenInEveryCall ==
  (call.op \in DeviceMethods /\ call.nth > 1 /\ call.made) => call.db # NoSession

(***************************************************************************)
(* Specification SpecChat: /query requests of authenticated users on the   *)
(* session agents.  handle_query runs without suspension up to the await   *)
(* of agent_executor.ainvoke inside MedicalLangChainAgent.chat (the agent  *)
(* has no initialize method, so _maybe_initialize awaits nothing); the     *)
(* return of ainvoke is a second step.  A message records, next to its     *)
(* role, the user whose request it belongs to.                             *)
(***************************************************************************)
MaxMessages == 3

MaxPending == 2

\* truncate_conversation_history is called with max_tokens 12000 and
\* max_messages 20
MaxHistoryMessages == 20

MaxHistoryChars == 48000

\* the length of the content of every message in the model
MessageChars == 100

\* the import of the tool modules succeeded
TOOLS_AVAILABLE == TRUE

AllTools ==
  {"get_specific_medical_value", "analyze_multiple_patients", "simple_medical_analysis",
   "hospital_document_search", "medications", "foodlog", "protocol", "plan",
   "doctor_patient_mapping", "user_profile", "device"}

\* the authenticated users: UserContext of auth/auth.py
ChatUsers ==
  {[user_id |-> 1, role_id |-> 1, can_access_all_patients |-> FALSE],
   [user_id |-> 2, role_id |-> 1, can_access_all_patients |-> FALSE],
   [user_id |-> 7, role_id |-> 2, can_access_all_patients |-> TRUE]}

SessionIds == {"s1"}

\* get_authorized_patient_id, for the users above
get_authorized_patient_id(requested_patient_id, current_user) ==
  IF current_user.can_access_all_patients THEN requested_patient_id
  ELSE Some(current_user.user_id)

\* MedicalLangChainAgent._create_medical_tools
create_medical_tools(user_context, tools_available) ==
  IF ~tools_available THEN {}
  ELSE IF ~IsNone(user_context) /\ Get(user_context).role_id = 1
  THEN AllTools \ {"analyze_multiple_patients"}
  ELSE AllTools

\* MedicalLangChainAgent._setup_langchain_agent: the tools are created again
\* and the executor is built on them; None when anything raises
setup_langchain_agent(agent, tools_available, setup_ok) ==
  [agent EXCEPT
     !.tools = create_medical_tools(agent.user_context, tools_available),
     !.agent_executor =
       IF setup_ok
       THEN Some([tools |-> create_medical_tools(agent.user_context, tools_available),
                  user_context |-> agent.user_context])
       ELSE None]

\* MedicalLangChainAgent.__init__
MedicalLangChainAgent_init(openai_api_key, tools_available, setup_ok) ==
  LET agent == [openai_api_key |-> openai_api_key, agent_executor |-> None,
                conversation_history |-> <<>>, tools |-> {}, user_context |-> None]
  IN IF openai_api_key # "" THEN setup_langchain_agent(agent, tools_available, setup_ok)
     ELSE agent

\* a set_user_context that keeps the tools and the executor the agent has
set_user_context_KeepTools(agent, user_context, tools_available, setup_ok) ==
  [agent EXCEPT !.user_context = Some(user_context)]

\* MedicalLangChainAgent.set_user_context
set_user_context(agent, user_context, tools_available, setup_ok) ==
  IF agent.openai_api_key # ""
  THEN setup_langchain_agent([agent EXCEPT !.user_context = Some(user_context)],
                             tools_available, setup_ok)
  ELSE [agent EXCEPT !.user_context = Some(user_context)]

\* the loop of truncate_conversation_history: from the newest message
\* backwards while the characters fit
RECURSIVE FitChars(_, _)
FitChars(history, total_chars) ==
  IF history = <<>> THEN <<>>
  ELSE IF total_chars + history[Len(history)].chars > MaxHistoryChars THEN <<>>
  ELSE FitChars(SubSeq(history, 1, Len(history) - 1), total_chars + history[Len(history)].chars)
         \o <<history[Len(history)]>>

truncate_conversation_history(conversation_history) ==
  FitChars(IF Len(conversation_history) > MaxHistoryMessages
           THEN SubSeq(conversation_history, Len(conversation_history) - MaxHistoryMessages + 1,
                       Len(conversation_history))
           ELSE conversation_history, 0)

\* str(uuid.uuid4()): an id no client has sent and no agent has
Uuids == {"u1"}

FreeUuids == Uuids \ DOMAIN session_agents

NewSessionId == CHOOSE u \in FreeUuids : TRUE

InitChat ==
  /\ store = [users |-> UsersTable, tables |-> EmptyTables]
  /\ call = NoCall
  /\ engine = None
  /\ result = Text("")
  /\ manager = None
  /\ device_service = None
  /\ session_agents = <<>>
  /\ service = None
  /\ requests = {}

\* handle_query up to the await of ainvoke: get_or_create_session_agent (the
\* key of session_agents is the session id alone), set_user_context, and
\* the part of chat that builds the chat history
HandleQuery ==
  \E current_user \in ChatUsers : \E sessionId \in {None} \cup {Some(s) : s \in SessionIds} :
  \E empty, setup_ok \in BOOLEAN : \E openai_api_key \in {"", "sk"} :
    LET session_id == IF IsNone(sessionId) THEN NewSessionId ELSE Get(sessionId)
        key == session_id
        authorized_patient_id == get_authorized_patient_id(None, current_user)
        created == IF key \in DOMAIN session_agents THEN session_agents[key]
                   ELSE MedicalLangChainAgent_init(openai_api_key, TOOLS_AVAILABLE, setup_ok)
        session_agent == set_user_context(created,
                           current_user @@ [authorized_patient_id |-> authorized_patient_id],
                           TOOLS_AVAILABLE, setup_ok)
        message == [role |-> "user", user |-> current_user.user_id, chars |-> MessageChars]
        this == [op |-> "handle_query", user |-> current_user.user_id, sessionId |-> sessionId]
    IN /\ Cardinality(requests) < MaxPending
       /\ IsNone(sessionId) => FreeUuids # {}
       /\ UNCHANGED <<store, engine, manager, device_service, service>>
       /\ IF empty
          THEN /\ call' = this
               /\ result' = Error("Query cannot be empty")
               /\ UNCHANGED <<session_agents, requests>>
          ELSE IF IsNone(session_agent.agent_executor)
          THEN /\ call' = this
               /\ result' = Text("Medical agent not available to process the request.")
               /\ session_agents' = (key :> session_agent) @@ session_agents
               /\ requests' = requests
          ELSE /\ Len(session_agent.conversation_history) + 2 <= MaxMessages
               /\ call' = this
               /\ result' = Text("")
               /\ session_agents' =
                    (key :> [session_agent EXCEPT !.conversation_history = Append(@, message)])
                      @@ session_agents
               /\ requests' = requests \cup
                    {[key |-> key, user |-> current_user.user_id,
                      role_id |-> current_user.role_id,
                      executor |-> Get(session_agent.agent_executor),
                      chat_history |->
                        truncate_conversation_history(session_agent.conversation_history)]}

\* ainvoke returns or raises: the output, when there is one, is appended to
\* the history of the agent and the answer leaves
ChatReturns ==
  \E r \in requests : \E output \in {"", "answer", "raises"} :
    /\ requests' = requests \ {r}
    /\ call' = [op |-> "chat", user |-> r.user, key |-> r.key]
    /\ result' = IF output = "raises" THEN Text("Sorry, I encountered an error")
                 ELSE Text(output)
    /\ session_agents' =
         IF output = "answer"
         THEN [session_agents EXCEPT ![r.key].conversation_history =
                 Append(@, [role |-> "assistant", user |-> r.user, chars |-> MessageChars])]
         ELSE session_agents
    /\ UNCHANGED <<store, engine, manager, device_service, service>>

NextChat == HandleQuery \/ ChatReturns

SpecChat == InitChat /\ [][NextChat]_vars

\* C28: the chat history given to the executor for a request holds only
\* messages and answers of requests of the same user.
C28_HistoryOnlyToItsUser ==
  \A r \in requests : \A i \in DOMAIN r.chat_history : r.chat_history[i].user = r.user

\* C29: a request of a patient is processed by an executor whose tools do not
\* include analyze_multiple_patients and that was built for that patient,
\* whatever contexts the agent had before.
C29_NoCrossPatientToolForPatients ==
  \A r \in requests :
    r.role_id = 1 =>
      /\ "analyze_multiple_patients" \notin r.executor.tools
      /\ Get(r.executor.user_context).user_id = r.user

\* a patient's request is being processed on an agent that processed a staff
\* request before
C29_Witness ==
  \E r \in requests :
    /\ r.role_id = 1
    /\ \E i \in DOMAIN r.chat_history : r.chat_history[i].user = 7
    /\ "get_specific_medical_value" \in r.executor.tools

====
